---- MODULE Spec2Model ----
(***************************************************************************)
(* Labeled homomorphic encryption over BGV (labeling/labeling.go) and the  *)
(* example drivers that call it.                                           *)
(*                                                                         *)
(* The BGV provider (lattigo) is outside the repository.  It is modelled   *)
(* by its contract: a BGV ciphertext is the key it is bound to together    *)
(* with the slot vector it decrypts to; Add, Mul, MulRelin act slot by     *)
(* slot in Z_t.  Noise, levels and scales are not modelled.                *)
(*                                                                         *)
(* The label arithmetic of labeling.go is Go uint64 arithmetic.  The model *)
(* scales the plaintext modulus t and the machine word down together and   *)
(* keeps t*t + t below the word modulus, as 0x3ee0001^2 is below 2^64.     *)
(***************************************************************************)
EXTENDS Integers, Sequences, FiniteSets, TLC

\* ------------------------------------------------------------------------
\* Bounds of the model
\* ------------------------------------------------------------------------

\* plaintext modulus t (0x3ee0001 in the drivers), scaled down
PlaintextModulus == 7

\* half of the slot count; each half of the slot vector rotates on its own
HalfSlots == 3

\* width in bits of the unsigned machine word (64 in Go), scaled down
WordBits == 16

\* ------------------------------------------------------------------------
\* Parameters
\* ------------------------------------------------------------------------

\* params.MaxSlots()
MaxSlots == HalfSlots + HalfSlots

Slots == 1..MaxSlots

RECURSIVE Pow2(_)
Pow2(k) == IF k = 0 THEN 1 ELSE 2 * Pow2(k - 1)

\* modulus of the unsigned word
WordModulus == Pow2(WordBits)

\* conversion of a mathematical integer to the unsigned word
Uint64(x) == x % WordModulus

\* uint64(math.Sqrt(float64(params.PlaintextModulus())))
SqrtModulus == CHOOSE s \in 0..PlaintextModulus :
                   s * s <= PlaintextModulus /\ (s + 1) * (s + 1) > PlaintextModulus

\* bits.Len64
RECURSIVE Len64(_)
Len64(x) == IF x = 0 THEN 0 ELSE 1 + Len64(x \div 2)

\* uint64(1<<bits.Len64(max) - 1)
SamplingMask == Pow2(Len64(SqrtModulus)) - 1

\* the sampler returning every masked draw, without the rejection
RandUniformNoReject(v, mask) == 0..mask

\* ring.RandUniform(prng, v, mask): the values the rejection sampler can
\* return, a masked draw that is below v
RandUniform(v, mask) == {x \in 0..mask : x < v}

\* ------------------------------------------------------------------------
\* Slot vectors
\* ------------------------------------------------------------------------

\* slot-wise operations in Z_t, as the BGV plaintext space computes them
VecAdd(x, y) == [i \in Slots |-> (x[i] + y[i]) % PlaintextModulus]
VecMul(x, y) == [i \in Slots |-> (x[i] * y[i]) % PlaintextModulus]

\* ------------------------------------------------------------------------
\* Keys
\* ------------------------------------------------------------------------

\* GenerateKeyPair: a key pair is identified by its owner; the secret and
\* the public key of one pair carry the same identity
KeyA == "A"

\* ------------------------------------------------------------------------
\* BGV provider
\* ------------------------------------------------------------------------

\* the slot vector a ciphertext yields under a secret key that is not the
\* one it is bound to: no slot of it can be relied on
Garbage == [i \in Slots |-> -1]

\* bgv.NewEncoder(params).Encode followed by rlwe.NewEncryptor(params, key).EncryptNew
BGVEncrypt(key, vec) == [key |-> key, slots |-> [i \in Slots |-> vec[i] % PlaintextModulus]]

\* rlwe.NewDecryptor(params, key).DecryptNew followed by Encoder.Decode
BGVDecrypt(key, c) == IF c.key = key THEN c.slots ELSE Garbage

\* key a ciphertext combined from c1 and c2 is bound to
JoinKey(c1, c2) == IF c1.key = c2.key THEN c1.key ELSE "mixed"

\* evaluator.Add(ct, ct, out)
BGVAdd(c1, c2) == [key |-> JoinKey(c1, c2), slots |-> VecAdd(c1.slots, c2.slots)]

\* evaluator.Add(ct, []uint64, out)
BGVAddPlain(c, vec) == [key |-> c.key, slots |-> VecAdd(c.slots, vec)]

\* evaluator.Mul(ct, []uint64, out)
BGVMulPlain(c, vec) == [key |-> c.key, slots |-> VecMul(c.slots, vec)]

\* evaluator.MulRelin(ct, ct, out)
BGVMulRelin(c1, c2) == [key |-> JoinKey(c1, c2), slots |-> VecMul(c1.slots, c2.slots)]

\* ------------------------------------------------------------------------
\* Labeled ciphertexts: [elementsA, elementB].  elementsA is a sequence of
\* words (PlaintextLabeledciphertext) or one BGV ciphertext
\* (CiphertextLabeledciphertext); elementB is a sequence of terms, each a
\* sequence of BGV ciphertexts.
\* ------------------------------------------------------------------------

\* the label of Encrypt with the mask added instead of subtracted
EncryptLabelPlusMask(v, mask) == Uint64(Uint64(v + mask) + PlaintextModulus) % PlaintextModulus

\* the label of Encrypt without the final reduction mod t
EncryptLabelUnreduced(v, mask) == Uint64(Uint64(v - mask) + PlaintextModulus)

\* the label of Encrypt without the "+ t" that undoes the wrap of the subtraction
EncryptLabelNoBias(v, mask) == Uint64(v - mask) % PlaintextModulus

\* diff := (value[i] - mask + t) % t, in unsigned words
EncryptLabel(v, mask) == Uint64(Uint64(v - mask) + PlaintextModulus) % PlaintextModulus

\* Encrypt; masks is the sequence of values the sampler returned, one per slot
Encrypt(key, value, masks) ==
    [elementsA |-> [i \in Slots |-> EncryptLabel(value[i], masks[i])],
     elementB  |-> << << BGVEncrypt(key, masks) >> >>]

\* the slot of Decrypt with the mask subtracted instead of added
DecryptSlotSub(a, b) == Uint64(Uint64(a - b) + PlaintextModulus) % PlaintextModulus

\* sum := (elementA + maskResult[i] + t) % t
DecryptSlot(a, b) == Uint64(Uint64(a + b) + PlaintextModulus) % PlaintextModulus

\* Decrypt
Decrypt(key, lc) ==
    LET maskResult == BGVDecrypt(key, lc.elementB[1][1])
    IN  [i \in 1..Len(lc.elementsA) |-> DecryptSlot(lc.elementsA[i], maskResult[i])]

\* the label of Sum without the reduction mod t
SumLabelUnreduced(a1, a2) == Uint64(a1 + a2)

\* sum := (a1 + a2) % t
SumLabel(a1, a2) == Uint64(a1 + a2) % PlaintextModulus

\* Sum that keeps the betas of its operands as two terms instead of adding them
SumAppendTerms(lc1, lc2) ==
    [elementsA |-> [i \in 1..Len(lc1.elementsA) |-> SumLabel(lc1.elementsA[i], lc2.elementsA[i])],
     elementB  |-> lc1.elementB \o lc2.elementB]

\* Sum
Sum(lc1, lc2) ==
    [elementsA |-> [i \in 1..Len(lc1.elementsA) |-> SumLabel(lc1.elementsA[i], lc2.elementsA[i])],
     elementB  |-> << << BGVAdd(lc1.elementB[1][1], lc2.elementB[1][1]) >> >>]

\* the label of Mult without the "+ t" that undoes the wrap of the subtraction
MultLabelNoBias(a1, a2, r) == Uint64(Uint64(a1 * a2) - r) % PlaintextModulus

\* the label of Mult without the fresh mask subtracted
MultLabelNoMask(a1, a2, r) == Uint64(Uint64(a1 * a2) + PlaintextModulus) % PlaintextModulus

\* product := (a1*a2 - r + t) % t
MultLabel(a1, a2, r) ==
    Uint64(Uint64(Uint64(a1 * a2) - r) + PlaintextModulus) % PlaintextModulus

\* the beta of Mult with each beta multiplied by its own label
MultBetaOwnLabel(lc1, lc2, key, randomVector) ==
    LET beta1 == lc1.elementB[1][1]
        beta2 == lc2.elementB[1][1]
        product == BGVMulRelin(beta1, beta2)
        labeledciphertext1ElementB == BGVMulPlain(beta1, lc1.elementsA)
        labeledciphertext2ElementB == BGVMulPlain(beta2, lc2.elementsA)
        ciphertextRandomVector == BGVEncrypt(key, randomVector)
    IN  BGVAdd(BGVAdd(BGVAdd(product, labeledciphertext1ElementB),
                      labeledciphertext2ElementB),
               ciphertextRandomVector)

\* the beta of Mult: MulRelin(b1, b2) + Mul(b1, a2) + Mul(b2, a1) + Enc(r)
MultBeta(lc1, lc2, key, randomVector) ==
    LET beta1 == lc1.elementB[1][1]
        beta2 == lc2.elementB[1][1]
        product == BGVMulRelin(beta1, beta2)
        labeledciphertext1ElementB == BGVMulPlain(beta1, lc2.elementsA)
        labeledciphertext2ElementB == BGVMulPlain(beta2, lc1.elementsA)
        ciphertextRandomVector == BGVEncrypt(key, randomVector)
    IN  BGVAdd(BGVAdd(BGVAdd(product, labeledciphertext1ElementB),
                      labeledciphertext2ElementB),
               ciphertextRandomVector)

\* Mult; randomVector is the sequence of values the sampler returned
Mult(lc1, lc2, key, randomVector) ==
    [elementsA |-> [i \in 1..Len(lc1.elementsA) |->
                       MultLabel(lc1.elementsA[i], lc2.elementsA[i], randomVector[i])],
     elementB  |-> << << MultBeta(lc1, lc2, key, randomVector) >> >>]

\* productVector[i] = (a1 * a2) % t
ProductLabel(a1, a2) == Uint64(a1 * a2) % PlaintextModulus

\* alpha with each beta multiplied by its own label
MultOverflowAlphaOwnLabel(lc1, lc2, key) ==
    LET productVector == [i \in 1..Len(lc1.elementsA) |->
                             ProductLabel(lc1.elementsA[i], lc2.elementsA[i])]
        productCiphertext == BGVEncrypt(key, productVector)
        a1beta2 == BGVMulPlain(lc1.elementB[1][1], lc1.elementsA)
        a2beta1 == BGVMulPlain(lc2.elementB[1][1], lc2.elementsA)
    IN  BGVAdd(BGVAdd(productCiphertext, a1beta2), a2beta1)

\* alpha = Enc(pk, a1*a2) + a1*beta2 + a2*beta1
MultOverflowAlpha(lc1, lc2, key) ==
    LET productVector == [i \in 1..Len(lc1.elementsA) |->
                             ProductLabel(lc1.elementsA[i], lc2.elementsA[i])]
        productCiphertext == BGVEncrypt(key, productVector)
        a1beta2 == BGVMulPlain(lc2.elementB[1][1], lc1.elementsA)
        a2beta1 == BGVMulPlain(lc1.elementB[1][1], lc2.elementsA)
    IN  BGVAdd(BGVAdd(productCiphertext, a1beta2), a2beta1)

\* MultOverflow storing the betas of its operands in the opposite order
MultOverflowSwappedBeta(lc1, lc2, key) ==
    [elementsA |-> MultOverflowAlpha(lc1, lc2, key),
     elementB  |-> << << lc2.elementB[1][1], lc1.elementB[1][1] >> >>]

\* MultOverflow storing the first beta in both places of the term
MultOverflowSameBeta(lc1, lc2, key) ==
    [elementsA |-> MultOverflowAlpha(lc1, lc2, key),
     elementB  |-> << << lc1.elementB[1][1], lc1.elementB[1][1] >> >>]

\* MultOverflow
MultOverflow(lc1, lc2, key) ==
    [elementsA |-> MultOverflowAlpha(lc1, lc2, key),
     elementB  |-> << << lc1.elementB[1][1], lc2.elementB[1][1] >> >>]

\* SumOverflow keeping only the bundle of the first operand
SumOverflowKeepBundle(lc1, lc2) ==
    [elementsA |-> BGVAddPlain(lc1.elementsA, lc2.elementsA),
     elementB  |-> lc1.elementB]

\* SumOverflow multiplying the label into alpha instead of adding it
SumOverflowMulPlain(lc1, lc2) ==
    [elementsA |-> BGVMulPlain(lc1.elementsA, lc2.elementsA),
     elementB  |-> lc1.elementB \o lc2.elementB]

\* SumOverflow
SumOverflow(lc1, lc2) ==
    [elementsA |-> BGVAddPlain(lc1.elementsA, lc2.elementsA),
     elementB  |-> lc1.elementB \o lc2.elementB]

\* SumOverflowCiphertext folding the first terms of the two bundles into one
SumOverflowCiphertextFolded(lc1, lc2) ==
    [elementsA |-> BGVAdd(lc1.elementsA, lc2.elementsA),
     elementB  |-> << lc1.elementB[1] \o lc2.elementB[1] >>]

\* SumOverflowCiphertext appending the bundles in the opposite order
SumOverflowCiphertextReversed(lc1, lc2) ==
    [elementsA |-> BGVAdd(lc1.elementsA, lc2.elementsA),
     elementB  |-> lc2.elementB \o lc1.elementB]

\* SumOverflowCiphertext
SumOverflowCiphertext(lc1, lc2) ==
    [elementsA |-> BGVAdd(lc1.elementsA, lc2.elementsA),
     elementB  |-> lc1.elementB \o lc2.elementB]

\* multBetas[k] = (multBetas[k] * plainBeta[k]) % t over the factors of a term
RECURSIVE MultBetas(_, _, _)
MultBetas(key, term, j) ==
    IF j = 0 THEN [k \in Slots |-> 1]
    ELSE LET multBetas == MultBetas(key, term, j - 1)
             plainBeta == BGVDecrypt(key, term[j])
         IN  [k \in Slots |-> Uint64(multBetas[k] * plainBeta[k]) % PlaintextModulus]

\* sumBetas[k] = (sumBetas[k] + multBetas[k]) % t over the terms of the bundle
RECURSIVE SumBetas(_, _, _)
SumBetas(key, bundle, i) ==
    IF i = 0 THEN [k \in Slots |-> 0]
    ELSE LET sumBetas == SumBetas(key, bundle, i - 1)
             multBetas == MultBetas(key, bundle[i], Len(bundle[i]))
         IN  [k \in Slots |-> Uint64(sumBetas[k] + multBetas[k]) % PlaintextModulus]

\* DecryptOverflow
DecryptOverflow(key, lc) ==
    LET plainAlpha == BGVDecrypt(key, lc.elementsA)
        sumBetas == SumBetas(key, lc.elementB, Len(lc.elementB))
    IN  [i \in Slots |-> Uint64(Uint64(plainAlpha[i] + sumBetas[i]) + PlaintextModulus)
                             % PlaintextModulus]

\* ------------------------------------------------------------------------
\* Rotation.  RotateColumns and RotateColumnsOverflow are called by
\* examples/rotate/main.go; their bodies are not among the sources.
\* ------------------------------------------------------------------------

\* source slot of slot i under a column rotation by k: each half is shifted
\* cyclically to the left by k
RotIndex(i, k) ==
    IF i <= HalfSlots THEN ((i - 1 + k) % HalfSlots) + 1
    ELSE HalfSlots + ((i - 1 - HalfSlots + k) % HalfSlots) + 1

\* evaluator.RotateColumns(ct, k, out)
BGVRotateColumns(c, k) == [key |-> c.key, slots |-> [i \in Slots |-> c.slots[RotIndex(i, k)]]]

\* RotateColumns
RotateColumns(lc, k) ==
    [elementsA |-> [i \in Slots |-> lc.elementsA[RotIndex(i, k)]],
     elementB  |-> << << BGVRotateColumns(lc.elementB[1][1], k) >> >>]

\* RotateColumnsOverflow
RotateColumnsOverflow(lc, k) ==
    [elementsA |-> BGVRotateColumns(lc.elementsA, k),
     elementB  |-> [i \in 1..Len(lc.elementB) |->
                       [j \in 1..Len(lc.elementB[i]) |-> BGVRotateColumns(lc.elementB[i][j], k)]]]

\* ------------------------------------------------------------------------
\* Key switching.  GenerateEvaluationKey, ApplyEvaluationKey and
\* ApplyEvaluationKeyOverflow are called by examples/evaluationKeys/main.go;
\* their bodies are not among the sources.
\* ------------------------------------------------------------------------

\* SkB, _ := labeling.GenerateKeyPair(params)
KeyB == "B"

\* SkC, _ := labeling.GenerateKeyPair(params)
KeyC == "C"

\* GenerateEvaluationKey(params, skSrc, skDst): the key-switching key src -> dst
GenerateEvaluationKey(skSrc, skDst) == [src |-> skSrc, dst |-> skDst]

\* evaluator.ApplyEvaluationKey(ct, ek, out): a ciphertext bound to the source
\* key of ek becomes bound to its destination key and keeps its slots; a
\* ciphertext bound to another key is bound to no key afterwards
BGVApplyEvaluationKey(c, ek) ==
    [key |-> IF c.key = ek.src THEN ek.dst ELSE "mixed", slots |-> c.slots]

\* ApplyEvaluationKey that treats the label as bound to the key and resets it
ApplyEvaluationKeyResetLabel(lc, ek) ==
    [elementsA |-> [i \in 1..Len(lc.elementsA) |-> 0],
     elementB  |-> << << BGVApplyEvaluationKey(lc.elementB[1][1], ek) >> >>]

\* ApplyEvaluationKey leaving beta under the key it had
ApplyEvaluationKeyKeepBeta(lc, ek) ==
    [elementsA |-> lc.elementsA,
     elementB  |-> << << lc.elementB[1][1] >> >>]

\* ApplyEvaluationKey: the label is kept verbatim, beta is key-switched
ApplyEvaluationKey(lc, ek) ==
    [elementsA |-> lc.elementsA,
     elementB  |-> << << BGVApplyEvaluationKey(lc.elementB[1][1], ek) >> >>]

\* ApplyEvaluationKeyOverflow switching alpha only
ApplyEvaluationKeyOverflowAlphaOnly(lc, ek) ==
    [elementsA |-> BGVApplyEvaluationKey(lc.elementsA, ek),
     elementB  |-> lc.elementB]

\* ApplyEvaluationKeyOverflow: alpha and every beta of every term are
\* key-switched
ApplyEvaluationKeyOverflow(lc, ek) ==
    [elementsA |-> BGVApplyEvaluationKey(lc.elementsA, ek),
     elementB  |-> [i \in 1..Len(lc.elementB) |->
                       [j \in 1..Len(lc.elementB[i]) |->
                           BGVApplyEvaluationKey(lc.elementB[i][j], ek)]]]

\* ------------------------------------------------------------------------
\* Storage.  A Go labeled ciphertext is a struct of slices: passing it to an
\* operation copies the struct and shares what the slices point to.  mem
\* holds what they point to: the label slices (mem.labels) and the BGV
\* ciphertexts (mem.ciphers), each by address.  A stored clear-shape labeled
\* ciphertext is [elementsA |-> address of its label, elementB |-> terms of
\* addresses of ciphertexts]; an encrypted-shape one has the address of
\* alpha as elementsA.  The outer slice of elementB is built anew by every
\* operation (make, or append to the zero slice) and is held by value.
\* ------------------------------------------------------------------------

\* address of an object allocated next in a sequence of objects
NewAddress(objects) == Len(objects) + 1

\* objects with object o written at address a: a is the next address to
\* allocate, or an address that already holds an object
Put(objects, a, o) ==
    IF a = NewAddress(objects) THEN Append(objects, o) ELSE [objects EXCEPT ![a] = o]

\* what a stored clear-shape labeled ciphertext points to
ClearValue(m, lc) ==
    [elementsA |-> m.labels[lc.elementsA],
     elementB  |-> << << m.ciphers[lc.elementB[1][1]] >> >>]

\* what a stored encrypted-shape labeled ciphertext points to
OverflowValue(m, lc) ==
    [elementsA |-> m.ciphers[lc.elementsA],
     elementB  |-> [i \in 1..Len(lc.elementB) |->
                       [j \in 1..Len(lc.elementB[i]) |-> m.ciphers[lc.elementB[i][j]]]]]

\* Encrypt: the label is a slice made in the call (make, line 88) and beta
\* the ciphertext EncryptNew returns (line 110)
MemEncrypt(m, key, value, masks) ==
    LET r == Encrypt(key, value, masks)
    IN  [mem |-> [labels  |-> Append(m.labels, r.elementsA),
                  ciphers |-> Append(m.ciphers, r.elementB[1][1])],
         lc  |-> [elementsA |-> NewAddress(m.labels),
                  elementB  |-> << << NewAddress(m.ciphers) >> >>]]

\* Sum with the first operand's beta as the output operand of evaluator.Add
MemSumInPlace(m, lc1, lc2) ==
    LET r == Sum(ClearValue(m, lc1), ClearValue(m, lc2))
        out == lc1.elementB[1][1]
    IN  [mem |-> [labels  |-> Append(m.labels, r.elementsA),
                  ciphers |-> Put(m.ciphers, out, r.elementB[1][1])],
         lc  |-> [elementsA |-> NewAddress(m.labels), elementB |-> << << out >> >>]]

\* Sum: the label is a slice made in the call (line 193); the output operand
\* of evaluator.Add is a new ciphertext (rlwe.NewCiphertext, line 202)
MemSum(m, lc1, lc2) ==
    LET r == Sum(ClearValue(m, lc1), ClearValue(m, lc2))
        out == NewAddress(m.ciphers)
    IN  [mem |-> [labels  |-> Append(m.labels, r.elementsA),
                  ciphers |-> Put(m.ciphers, out, r.elementB[1][1])],
         lc  |-> [elementsA |-> NewAddress(m.labels), elementB |-> << << out >> >>]]

\* Mult accumulating in the first operand's beta
MemMultInPlace(m, lc1, lc2, key, randomVector) ==
    LET r == Mult(ClearValue(m, lc1), ClearValue(m, lc2), key, randomVector)
        out == lc1.elementB[1][1]
    IN  [mem |-> [labels  |-> Append(m.labels, r.elementsA),
                  ciphers |-> Put(m.ciphers, out, r.elementB[1][1])],
         lc  |-> [elementsA |-> NewAddress(m.labels), elementB |-> << << out >> >>]]

\* Mult: the label is a slice made in the call (line 236); MulRelin and the
\* three Adds accumulate in a new ciphertext (rlwe.NewCiphertext, line 246);
\* the two Mul write to new ciphertexts of their own (lines 256, 270) that
\* the result does not point to
MemMult(m, lc1, lc2, key, randomVector) ==
    LET r == Mult(ClearValue(m, lc1), ClearValue(m, lc2), key, randomVector)
        out == NewAddress(m.ciphers)
    IN  [mem |-> [labels  |-> Append(m.labels, r.elementsA),
                  ciphers |-> Put(m.ciphers, out, r.elementB[1][1])],
         lc  |-> [elementsA |-> NewAddress(m.labels), elementB |-> << << out >> >>]]

\* MultOverflow: alpha accumulates in a new ciphertext (line 344); the two
\* factors of the term are copies of the operands' ciphertext structs (lines
\* 363-364), which point to the storage the operands' betas point to
MemMultOverflow(m, lc1, lc2, key) ==
    LET r == MultOverflow(ClearValue(m, lc1), ClearValue(m, lc2), key)
        alpha == NewAddress(m.ciphers)
    IN  [mem |-> [labels |-> m.labels, ciphers |-> Put(m.ciphers, alpha, r.elementsA)],
         lc  |-> [elementsA |-> alpha,
                  elementB  |-> << << lc1.elementB[1][1], lc2.elementB[1][1] >> >>]]

\* SumOverflow: the output operand of evaluator.Add is a new ciphertext (line
\* 379); the terms are the operands' terms (append, lines 392-393)
MemSumOverflow(m, lc1, lc2) ==
    LET r == SumOverflow(OverflowValue(m, lc1), ClearValue(m, lc2))
        result == NewAddress(m.ciphers)
    IN  [mem |-> [labels |-> m.labels, ciphers |-> Put(m.ciphers, result, r.elementsA)],
         lc  |-> [elementsA |-> result, elementB |-> lc1.elementB \o lc2.elementB]]

\* SumOverflowCiphertext with the first operand's alpha as the output operand
MemSumOverflowCiphertextInPlace(m, lc1, lc2) ==
    LET r == SumOverflowCiphertext(OverflowValue(m, lc1), OverflowValue(m, lc2))
        result == lc1.elementsA
    IN  [mem |-> [labels |-> m.labels, ciphers |-> Put(m.ciphers, result, r.elementsA)],
         lc  |-> [elementsA |-> result, elementB |-> lc1.elementB \o lc2.elementB]]

\* SumOverflowCiphertext: the output operand of evaluator.Add is a new
\* ciphertext (line 409); the terms are the operands' terms (lines 422-423)
MemSumOverflowCiphertext(m, lc1, lc2) ==
    LET r == SumOverflowCiphertext(OverflowValue(m, lc1), OverflowValue(m, lc2))
        result == NewAddress(m.ciphers)
    IN  [mem |-> [labels |-> m.labels, ciphers |-> Put(m.ciphers, result, r.elementsA)],
         lc  |-> [elementsA |-> result, elementB |-> lc1.elementB \o lc2.elementB]]

\* ------------------------------------------------------------------------
\* Parameters of the scheme
\* ------------------------------------------------------------------------

\* NewParametersFromLiteral(logN, LogQ, LogP, PlaintextModulus): the literal
\* handed to bgv.NewParametersFromLiteral is written out in the function; the
\* literal is a valid one, so that err is nil
NewParametersFromLiteral(logN, LogQ, LogP, t) ==
    [params |-> [LogN             |-> 14,
                 LogQ             |-> <<56, 55, 55, 54, 54, 54>>,
                 LogP             |-> <<55, 55>>,
                 PlaintextModulus |-> 65929217],
     err    |-> "nil"]

\* ------------------------------------------------------------------------
\* Calls and what they return.  A call returns [result, err, trace]: trace
\* is the sequence of sub-operations of the provider it performed; fail is
\* the position, among the sub-operations of the called function, of the one
\* that returns an error (0: none does).  A call that indexes a slice out of
\* its range does not return: err is "panic".
\* ------------------------------------------------------------------------

\* PlaintextLabeledciphertext{}
ZeroClear == [elementsA |-> <<>>, elementB |-> <<>>]

\* *rlwe.NewCiphertext(params, params.MaxLevel(), 1)
Blank == [key |-> "none", slots |-> [i \in Slots |-> 0]]

\* Encrypt: NewPRNG (line 79), the loop over the slots that reads value[i]
\* (lines 90-100), Encode (line 104), EncryptNew (line 110)
EncryptCall(key, value, masks, fail) ==
    LET subops == <<"NewPRNG", "Encode", "EncryptNew">>
        labeledciphertext ==
            [elementsA |-> [i \in Slots |-> EncryptLabel(value[i], masks[i])],
             elementB  |-> <<>>]
    IN  IF fail = 1
        THEN [result |-> ZeroClear, err |-> "error", trace |-> SubSeq(subops, 1, 1)]
        ELSE IF Len(value) < MaxSlots
        THEN [err |-> "panic", trace |-> SubSeq(subops, 1, 1)]
        ELSE IF fail \in {2, 3}
        THEN [result |-> labeledciphertext, err |-> "error", trace |-> SubSeq(subops, 1, fail)]
        ELSE [result |-> Encrypt(key, value, masks), err |-> "nil", trace |-> subops]

\* Sum: the loop over the first label that reads the second (lines 194-197),
\* the betas elementB[0][0] of both operands, evaluator.Add (line 205)
SumCall(lc1, lc2, fail) ==
    LET subops == <<"Add">>
        labeledciphertextSum ==
            [elementsA |-> [i \in 1..Len(lc1.elementsA) |->
                               SumLabel(lc1.elementsA[i], lc2.elementsA[i])],
             elementB  |-> << << Blank >> >>]
    IN  IF Len(lc2.elementsA) < Len(lc1.elementsA) \/ lc1.elementB = <<>> \/ lc2.elementB = <<>>
        THEN [err |-> "panic", trace |-> <<>>]
        ELSE IF fail = 1
        THEN [result |-> labeledciphertextSum, err |-> "error", trace |-> subops]
        ELSE [result |-> Sum(lc1, lc2), err |-> "nil", trace |-> subops]

\* Mult: NewPRNG (line 220), the loop over the first label that reads the
\* second (lines 237-240), the betas elementB[0][0] of both operands, then
\* MulRelin (250), Mul (257), Add (264), Mul (271), Add (278), Encode (285),
\* EncryptNew (290), Add (297); the three Adds accumulate in the beta of the
\* product, which a failing sub-operation is taken to leave as it was
MultCall(lc1, lc2, key, randomVector, fail) ==
    LET subops == <<"NewPRNG", "MulRelin", "Mul", "Add", "Mul", "Add",
                    "Encode", "EncryptNew", "Add">>
        beta1 == lc1.elementB[1][1]
        beta2 == lc2.elementB[1][1]
        product == BGVMulRelin(beta1, beta2)
        labeledciphertext1ElementB == BGVMulPlain(beta1, lc2.elementsA)
        labeledciphertext2ElementB == BGVMulPlain(beta2, lc1.elementsA)
        accumulated ==
            IF fail = 2 THEN Blank
            ELSE IF fail \in {3, 4} THEN product
            ELSE IF fail \in {5, 6} THEN BGVAdd(product, labeledciphertext1ElementB)
            ELSE BGVAdd(BGVAdd(product, labeledciphertext1ElementB),
                        labeledciphertext2ElementB)
        labeledciphertextProduct ==
            [elementsA |-> [i \in 1..Len(lc1.elementsA) |->
                               MultLabel(lc1.elementsA[i], lc2.elementsA[i], randomVector[i])],
             elementB  |-> << << accumulated >> >>]
    IN  IF fail = 1
        THEN [result |-> ZeroClear, err |-> "error", trace |-> SubSeq(subops, 1, 1)]
        ELSE IF Len(lc2.elementsA) < Len(lc1.elementsA) \/ lc1.elementB = <<>>
                \/ lc2.elementB = <<>>
        THEN [err |-> "panic", trace |-> SubSeq(subops, 1, 1)]
        ELSE IF fail > 1
        THEN [result |-> labeledciphertextProduct, err |-> "error",
              trace |-> SubSeq(subops, 1, fail)]
        ELSE [result |-> Mult(lc1, lc2, key, randomVector), err |-> "nil", trace |-> subops]

\* ------------------------------------------------------------------------
\* Evaluation key sets.  evk holds the relinearization key or not, and the
\* Galois keys of some rotation steps.  An evaluator asked for a key its set
\* lacks returns an error from that instruction.
\* ------------------------------------------------------------------------

\* rlwe.NewMemEvaluationKeySet(rlk, galKeys...)
GenerateMemEvaluationKeySetWithGalois(rlk, galKeys) == [rlk |-> rlk, galois |-> galKeys]

\* CiphertextLabeledciphertext{}
ZeroOverflow == [elementsA |-> Blank, elementB |-> <<>>]

\* Mult with the key set evk: MulRelin (line 250) is the one instruction that
\* needs the relinearization key
MultWithKeys(lc1, lc2, key, randomVector, evk) ==
    MultCall(lc1, lc2, key, randomVector, IF evk.rlk THEN 0 ELSE 2)

\* RotateColumns with the key set evk: the rotation by k needs the Galois
\* key of k
RotateColumnsWithKeys(lc, k, evk) ==
    IF k \in evk.galois
    THEN [result |-> RotateColumns(lc, k), err |-> "nil"]
    ELSE [result |-> ZeroClear, err |-> "error"]

\* RotateColumnsOverflow with the key set evk
RotateColumnsOverflowWithKeys(lc, k, evk) ==
    IF k \in evk.galois
    THEN [result |-> RotateColumnsOverflow(lc, k), err |-> "nil"]
    ELSE [result |-> ZeroOverflow, err |-> "error"]

\* ------------------------------------------------------------------------
\* Concurrent invocations.  Each one creates its sampler (sampling.NewPRNG)
\* and its evaluator (bgv.NewEvaluator) itself.  A sampler is a stream: a
\* read returns a value and advances it.  An evaluator computes into its own
\* buffer and then copies the buffer into the output operand.
\* ------------------------------------------------------------------------

Procs == {1, 2}

\* seeds the system's entropy source may hand to sampling.NewPRNG
Seeds == {0, 1}

\* prng, err := sampling.NewPRNG(): one per invocation
PRNGOf(p) == p

\* the evaluator an invocation uses, were all of them to share one
EvaluatorShared(p) == 1

\* evaluator := bgv.NewEvaluator(params.Parameters, evk): one per invocation
EvaluatorOf(p) == p

\* ring.RandUniform(prng, maxvalue, mask) on a stream in the given state
PRNGRead(state) ==
    [out   |-> CHOOSE x \in RandUniform(SqrtModulus, SamplingMask) :
                   x = state % SqrtModulus,
     state |-> state + 1]

\* the vector an invocation draws from a sampler that nobody else reads
Stream(seed) == [i \in Slots |-> PRNGRead(seed + i - 1).out]

\* an invocation that has not been made
Idle ==
    [pc |-> "idle", op |-> "none", lc1 |-> ZeroClear, lc2 |-> ZeroClear,
     value |-> <<>>, seed |-> 0, randomVector |-> <<>>, k |-> 0,
     acc |-> Blank, tmp |-> Blank, result |-> ZeroClear, overlap |-> FALSE]

\* the evaluator instructions of Mult in program order (lines 250, 257, 264,
\* 271, 278, 297): what instruction k computes from the locals l
Instr(k, l) ==
    CASE k = 1 -> BGVMulRelin(l.lc1.elementB[1][1], l.lc2.elementB[1][1])
      [] k = 2 -> BGVMulPlain(l.lc1.elementB[1][1], l.lc2.elementsA)
      [] k = 4 -> BGVMulPlain(l.lc2.elementB[1][1], l.lc1.elementsA)
      [] OTHER -> BGVAdd(l.acc, l.tmp)

\* instructions whose output operand is a temporary ciphertext
IntoTmp == {2, 4}

\* the instruction that follows the encryption of the random vector
LastInstr == 6

\* what the invocation returns when nothing else runs
Alone(l) ==
    IF l.op = "Mult"
    THEN Mult(l.lc1, l.lc2, KeyA, Stream(l.seed))
    ELSE Encrypt(KeyA, l.value, Stream(l.seed))

\* ------------------------------------------------------------------------
\* Inputs of the drivers
\* ------------------------------------------------------------------------

\* value vectors the drivers encrypt: arithmetic progressions in Z_t
Values == {[i \in Slots |-> (c + d * i) % PlaintextModulus] :
               <<c, d>> \in {<<PlaintextModulus - 1, 1>>, <<0, PlaintextModulus - 1>>}}

\* sequences of sampler results, one draw of RandUniform per slot
Samples == {s \in {[i \in Slots |-> (c + d * i) % SqrtModulus] : c \in 0..1, d \in {1}} :
               \A i \in Slots : s[i] \in RandUniform(SqrtModulus, SamplingMask)}

\* rotation steps the drivers ask for
Steps == {HalfSlots + 1, -1}

\* evaluation keys the drivers generate: from the encrypting pair to a second
\* and a third pair, and between those two
EvaluationKeys ==
    {GenerateEvaluationKey(KeyA, KeyB), GenerateEvaluationKey(KeyA, KeyC),
     GenerateEvaluationKey(KeyB, KeyC)}

\* sequences of sampler results drawn from the sampler itself: one draw for
\* the odd slots and one for the even slots
Draws ==
    {[i \in Slots |-> IF i % 2 = 1 THEN x ELSE y] :
        x \in RandUniform(SqrtModulus, SamplingMask),
        y \in RandUniform(SqrtModulus, SamplingMask)}

\* vectors of words a caller may pass to Encrypt: residues of Z_t, and words
\* at and above t up to the largest word
Words ==
    Values \cup {[i \in Slots |-> PlaintextModulus + i - 1],
                 [i \in Slots |-> WordModulus - i]}

\* argument tuples a caller may hand to NewParametersFromLiteral: ring
\* degrees 2^13..2^15, modulus chains of the sizes lattigo's examples use,
\* and primes t with t = 1 mod 2^16 (0x10001, 0xc0001, 0x3ee0001, 0x7e00001)
LogNs == {13, 14, 15}
LogQs == {<<56, 55, 55, 54, 54, 54>>, <<54, 54, 54>>, <<55, 55>>}
LogPs == {<<55, 55>>, <<55>>, <<56>>}
PlaintextModuli == {65537, 786433, 65929217, 132120577}

\* value vectors of every length up to one more than the slot count
Vectors ==
    {[i \in 1..n |-> (c + i) % PlaintextModulus] : n \in 0..(MaxSlots + 1), c \in 0..1}

\* clear-shape labeled ciphertexts a caller may hold: fresh ones, and the
\* zero value
Operands == {Encrypt(KeyA, v, masks) : v \in Values, masks \in Samples} \cup {ZeroClear}

\* key sets a caller may supply: with or without the relinearization key,
\* with the Galois keys of any of the steps
KeySets ==
    {GenerateMemEvaluationKeySetWithGalois(rlk, galKeys) :
        rlk \in BOOLEAN, galKeys \in SUBSET Steps}

\* fresh clear-shape labeled ciphertexts
FreshOperands == Operands \ {ZeroClear}

\* ------------------------------------------------------------------------
\* State of a driver: the labeled ciphertexts it holds
\* ------------------------------------------------------------------------

VARIABLES
    ct,       \* clear-shape labeled ciphertexts, by the variable that holds them
    ov,       \* encrypted-shape labeled ciphertexts, by the variable that holds them
    built,    \* how each labeled ciphertext was obtained: operation, operands, draws
    expr,     \* value in Z_t of the arithmetic expression each one stands for
    last,     \* the variable the most recent operation assigned
    value,    \* what the driver decrypted from that variable, once it has
    mem,      \* storage the labeled ciphertexts point into, by address
    call,     \* the call of the library made last: operation and arguments
    ret,      \* what that call returned
    proc,     \* concurrent invocations: position, arguments and locals of each
    pool      \* the samplers and evaluators the invocations work with

\* the variables of the concurrent invocations
conc == <<proc, pool>>

\* the variables only some of the specifications use
aux == <<mem, call, ret, conc>>

vars == <<ct, ov, built, expr, last, value, aux>>

ClearVars == <<"ct1", "ct2", "ct3">>
OverflowVars == <<"ov1", "ov2", "ov3">>

\* first variable of a sequence of variables that holds nothing yet
Free(names, held) == {names[i] : i \in {j \in 1..Len(names) :
                          names[j] \notin held /\ \A l \in 1..(j - 1) : names[l] \in held}}

How(op, args, rnd, k) == [op |-> op, args |-> args, rnd |-> rnd, k |-> k]

Init ==
    /\ ct = <<>>
    /\ ov = <<>>
    /\ built = <<>>
    /\ expr = <<>>
    /\ last = "none"
    /\ value = <<>>
    /\ mem = [labels |-> <<>>, ciphers |-> <<>>]
    /\ call = [op |-> "none"]
    /\ ret = [err |-> "none"]
    /\ proc = [p \in Procs |-> Idle]
    /\ pool = [prng |-> [p \in Procs |-> 0], buffer |-> [p \in Procs |-> Blank]]

\* labeledciphertext, err := labeling.Encrypt(params, Pk, valuesVector)
EncryptStep ==
    \E dst \in Free(SubSeq(ClearVars, 1, 2), DOMAIN ct), v \in Values, masks \in Samples :
        /\ ov = <<>>
        /\ ct' = ct @@ (dst :> Encrypt(KeyA, v, masks))
        /\ built' = built @@ (dst :> How("Encrypt", <<>>, masks, 0))
        /\ expr' = expr @@ (dst :> v)
        /\ last' = dst
        /\ value' = <<>>
        /\ UNCHANGED ov
        /\ UNCHANGED aux

\* result, err := labeling.Decrypt(params, Sk, labeledciphertext)
DecryptStep ==
    /\ last \in DOMAIN ct
    /\ value' = (last :> Decrypt(KeyA, ct[last]))
    /\ UNCHANGED <<ct, ov, built, expr, last>>
    /\ UNCHANGED aux

\* ctSum, _ := labeling.Sum(params.Parameters, ct1, ct2)
SumStep ==
    \E dst \in Free(SubSeq(ClearVars, 2, 3), DOMAIN ct), a \in DOMAIN ct, b \in DOMAIN ct :
        /\ ov = <<>>
        /\ ct' = ct @@ (dst :> Sum(ct[a], ct[b]))
        /\ built' = built @@ (dst :> How("Sum", <<a, b>>, <<>>, 0))
        /\ expr' = expr @@ (dst :> VecAdd(expr[a], expr[b]))
        /\ last' = dst
        /\ value' = <<>>
        /\ UNCHANGED ov
        /\ UNCHANGED aux

\* labeledciphertextMult, err := labeling.Mult(params, ct1, ct2, Pk, evk)
MultStep ==
    \E dst \in Free(SubSeq(ClearVars, 2, 3), DOMAIN ct), a \in DOMAIN ct, b \in DOMAIN ct,
       randomVector \in Samples :
        /\ ov = <<>>
        /\ ct' = ct @@ (dst :> Mult(ct[a], ct[b], KeyA, randomVector))
        /\ built' = built @@ (dst :> How("Mult", <<a, b>>, randomVector, 0))
        /\ expr' = expr @@ (dst :> VecMul(expr[a], expr[b]))
        /\ last' = dst
        /\ value' = <<>>
        /\ UNCHANGED ov
        /\ UNCHANGED aux

\* labeledciphertextRot, err := labeling.RotateColumns(params, labeledciphertext1, 10, evk)
RotateColumnsStep ==
    \E dst \in Free(SubSeq(ClearVars, 3, 3), DOMAIN ct), a \in DOMAIN ct, k \in Steps :
        /\ ov = <<>>
        /\ ct' = ct @@ (dst :> RotateColumns(ct[a], k))
        /\ built' = built @@ (dst :> How("RotateColumns", <<a>>, <<>>, k))
        /\ expr' = expr @@ (dst :> [i \in Slots |-> expr[a][RotIndex(i, k)]])
        /\ last' = dst
        /\ value' = <<>>
        /\ UNCHANGED ov
        /\ UNCHANGED aux

\* labeledciphertex2Mult, err := labeling.MultOverflow(params, ct1, ctMult, Pk)
MultOverflowStep ==
    \E dst \in Free(SubSeq(OverflowVars, 1, 2), DOMAIN ov), a \in DOMAIN ct, b \in DOMAIN ct :
        /\ a # b
        /\ ov' = ov @@ (dst :> MultOverflow(ct[a], ct[b], KeyA))
        /\ built' = built @@ (dst :> How("MultOverflow", <<a, b>>, <<>>, 0))
        /\ expr' = expr @@ (dst :> VecMul(expr[a], expr[b]))
        /\ last' = dst
        /\ value' = <<>>
        /\ UNCHANGED ct
        /\ UNCHANGED aux

\* labeledciphertex2MultAndSum, err := labeling.SumOverflow(params, labeledciphertex2Mult, ct1)
SumOverflowStep ==
    \E dst \in Free(SubSeq(OverflowVars, 2, 2), DOMAIN ov), a \in DOMAIN ov, b \in DOMAIN ct :
        /\ ov' = ov @@ (dst :> SumOverflow(ov[a], ct[b]))
        /\ built' = built @@ (dst :> How("SumOverflow", <<a, b>>, <<>>, 0))
        /\ expr' = expr @@ (dst :> VecAdd(expr[a], expr[b]))
        /\ last' = dst
        /\ value' = <<>>
        /\ UNCHANGED ct
        /\ UNCHANGED aux

\* labeling.SumOverflowCiphertext(params, ca, cb)
SumOverflowCiphertextStep ==
    \E dst \in Free(SubSeq(OverflowVars, 3, 3), DOMAIN ov),
       a \in DOMAIN ov \ {"ov1"}, b \in DOMAIN ov \cap {"ov1"} :
        /\ ov' = ov @@ (dst :> SumOverflowCiphertext(ov[a], ov[b]))
        /\ built' = built @@ (dst :> How("SumOverflowCiphertext", <<a, b>>, <<>>, 0))
        /\ expr' = expr @@ (dst :> VecAdd(expr[a], expr[b]))
        /\ last' = dst
        /\ value' = <<>>
        /\ UNCHANGED ct
        /\ UNCHANGED aux

\* labeledciphertextRot, err := labeling.RotateColumnsOverflow(params, labeledciphertextMult, 10, evk)
RotateColumnsOverflowStep ==
    \E dst \in Free(SubSeq(OverflowVars, 2, 2), DOMAIN ov), a \in DOMAIN ov, k \in Steps :
        /\ ov' = ov @@ (dst :> RotateColumnsOverflow(ov[a], k))
        /\ built' = built @@ (dst :> How("RotateColumnsOverflow", <<a>>, <<>>, k))
        /\ expr' = expr @@ (dst :> [i \in Slots |-> expr[a][RotIndex(i, k)]])
        /\ last' = dst
        /\ value' = <<>>
        /\ UNCHANGED ct
        /\ UNCHANGED aux

\* value, err := labeling.DecryptOverflow(params, Sk, labeledciphertex2MultAndSum)
DecryptOverflowStep ==
    /\ last \in DOMAIN ov
    /\ value' = (last :> DecryptOverflow(KeyA, ov[last]))
    /\ UNCHANGED <<ct, ov, built, expr, last>>
    /\ UNCHANGED aux

Next ==
    \/ EncryptStep
    \/ DecryptStep
    \/ SumStep
    \/ MultStep
    \/ RotateColumnsStep
    \/ MultOverflowStep
    \/ SumOverflowStep
    \/ SumOverflowCiphertextStep
    \/ RotateColumnsOverflowStep
    \/ DecryptOverflowStep

Spec == Init /\ [][Next]_vars

\* ------------------------------------------------------------------------
\* The key-switching driver (examples/evaluationKeys/main.go)
\* ------------------------------------------------------------------------

\* labeledciphertextEval, err := labeling.ApplyEvaluationKey(params, *evk, labeledciphertext1)
ApplyEvaluationKeyStep ==
    \E dst \in Free(SubSeq(ClearVars, 3, 3), DOMAIN ct), a \in DOMAIN ct, ek \in EvaluationKeys :
        /\ ov = <<>>
        /\ ct' = ct @@ (dst :> ApplyEvaluationKey(ct[a], ek))
        /\ built' = built @@ (dst :> How("ApplyEvaluationKey", <<a>>, <<>>, ek))
        /\ expr' = expr @@ (dst :> expr[a])
        /\ last' = dst
        /\ value' = <<>>
        /\ UNCHANGED ov
        /\ UNCHANGED aux

\* decryptedValues, err := labeling.Decrypt(params, SkB, *labeledciphertextEval):
\* the secret key is the one the evaluation key leads to
DecryptSwitchedStep ==
    /\ last \in DOMAIN ct
    /\ built[last].op = "ApplyEvaluationKey"
    /\ value' = (last :> Decrypt(built[last].k.dst, ct[last]))
    /\ UNCHANGED <<ct, ov, built, expr, last>>
    /\ UNCHANGED aux

\* labeledciphertextMultEval, err := labeling.ApplyEvaluationKeyOverflow(params, *evkC, labeledciphertextMult)
ApplyEvaluationKeyOverflowStep ==
    \E dst \in Free(SubSeq(OverflowVars, 3, 3), DOMAIN ov), a \in DOMAIN ov, ek \in EvaluationKeys :
        /\ ov' = ov @@ (dst :> ApplyEvaluationKeyOverflow(ov[a], ek))
        /\ built' = built @@ (dst :> How("ApplyEvaluationKeyOverflow", <<a>>, <<>>, ek))
        /\ expr' = expr @@ (dst :> expr[a])
        /\ last' = dst
        /\ value' = <<>>
        /\ UNCHANGED ct
        /\ UNCHANGED aux

\* decryptedValuesMult, err := labeling.DecryptOverflow(params, SkC, *labeledciphertextMultEval)
DecryptOverflowSwitchedStep ==
    /\ last \in DOMAIN ov
    /\ built[last].op = "ApplyEvaluationKeyOverflow"
    /\ value' = (last :> DecryptOverflow(built[last].k.dst, ov[last]))
    /\ UNCHANGED <<ct, ov, built, expr, last>>
    /\ UNCHANGED aux

NextKeys ==
    \/ EncryptStep
    \/ ApplyEvaluationKeyStep
    \/ DecryptSwitchedStep
    \/ MultOverflowStep
    \/ ApplyEvaluationKeyOverflowStep
    \/ DecryptOverflowSwitchedStep

SpecKeys == Init /\ [][NextKeys]_vars

\* ------------------------------------------------------------------------
\* Encrypt and Mult over everything the sampler can return
\* ------------------------------------------------------------------------

\* labeling.Encrypt(params, Pk, value) on any vector of words
EncryptDrawStep ==
    \E dst \in Free(SubSeq(ClearVars, 1, 2), DOMAIN ct), v \in Words, masks \in Draws :
        /\ ov = <<>>
        /\ ct' = ct @@ (dst :> Encrypt(KeyA, v, masks))
        /\ built' = built @@ (dst :> How("Encrypt", v, masks, 0))
        /\ expr' = expr @@ (dst :> [i \in Slots |-> v[i] % PlaintextModulus])
        /\ last' = dst
        /\ value' = <<>>
        /\ UNCHANGED ov
        /\ UNCHANGED aux

\* labeling.Mult(params, c1, c2, Pk, evk)
MultDrawStep ==
    \E dst \in Free(SubSeq(ClearVars, 3, 3), DOMAIN ct), a \in DOMAIN ct, b \in DOMAIN ct,
       randomVector \in Draws :
        /\ ov = <<>>
        /\ ct' = ct @@ (dst :> Mult(ct[a], ct[b], KeyA, randomVector))
        /\ built' = built @@ (dst :> How("Mult", <<a, b>>, randomVector, 0))
        /\ expr' = expr @@ (dst :> VecMul(expr[a], expr[b]))
        /\ last' = dst
        /\ value' = <<>>
        /\ UNCHANGED ov
        /\ UNCHANGED aux

NextDraw ==
    \/ EncryptDrawStep
    \/ MultDrawStep
    \/ DecryptStep

SpecDraw == Init /\ [][NextDraw]_vars

\* the two clear-label multiplications, over operands encrypted from any
\* vector of words
NextProduct ==
    \/ EncryptDrawStep
    \/ MultDrawStep
    \/ MultOverflowStep

SpecProduct == Init /\ [][NextProduct]_vars

\* ------------------------------------------------------------------------
\* The operations over the storage they share.  ct and ov hold the stored
\* labeled ciphertexts (addresses into mem); expr holds what each one
\* decrypted to when it was created.
\* ------------------------------------------------------------------------

\* labeling.Encrypt(params, Pk, value)
MemEncryptStep ==
    \E dst \in Free(SubSeq(ClearVars, 1, 2), DOMAIN ct), v \in Values, masks \in Samples :
        LET r == MemEncrypt(mem, KeyA, v, masks)
        IN  /\ ov = <<>>
            /\ mem' = r.mem
            /\ ct' = ct @@ (dst :> r.lc)
            /\ built' = built @@ (dst :> How("Encrypt", <<>>, masks, 0))
            /\ expr' = expr @@ (dst :> Decrypt(KeyA, ClearValue(r.mem, r.lc)))
            /\ last' = dst
            /\ value' = <<>>
            /\ UNCHANGED ov
            /\ UNCHANGED <<call, ret, conc>>

\* labeling.Decrypt(params, Sk, c), of any labeled ciphertext held, once
\* after an operation
MemDecryptStep ==
    \E x \in DOMAIN ct :
        /\ value = <<>>
        /\ value' = (x :> Decrypt(KeyA, ClearValue(mem, ct[x])))
        /\ UNCHANGED <<ct, ov, built, expr, last, mem, call, ret, conc>>

\* labeling.Sum(params.Parameters, c1, c2)
MemSumStep ==
    \E dst \in Free(SubSeq(ClearVars, 2, 3), DOMAIN ct), a \in DOMAIN ct, b \in DOMAIN ct :
        LET r == MemSum(mem, ct[a], ct[b])
        IN  /\ ov = <<>>
            /\ mem' = r.mem
            /\ ct' = ct @@ (dst :> r.lc)
            /\ built' = built @@ (dst :> How("Sum", <<a, b>>, <<>>, 0))
            /\ expr' = expr @@ (dst :> Decrypt(KeyA, ClearValue(r.mem, r.lc)))
            /\ last' = dst
            /\ value' = <<>>
            /\ UNCHANGED ov
            /\ UNCHANGED <<call, ret, conc>>

\* labeling.Mult(params, c1, c2, Pk, evk)
MemMultStep ==
    \E dst \in Free(SubSeq(ClearVars, 2, 3), DOMAIN ct), a \in DOMAIN ct, b \in DOMAIN ct,
       randomVector \in Samples :
        LET r == MemMult(mem, ct[a], ct[b], KeyA, randomVector)
        IN  /\ ov = <<>>
            /\ mem' = r.mem
            /\ ct' = ct @@ (dst :> r.lc)
            /\ built' = built @@ (dst :> How("Mult", <<a, b>>, randomVector, 0))
            /\ expr' = expr @@ (dst :> Decrypt(KeyA, ClearValue(r.mem, r.lc)))
            /\ last' = dst
            /\ value' = <<>>
            /\ UNCHANGED ov
            /\ UNCHANGED <<call, ret, conc>>

\* labeling.MultOverflow(params, c1, c2, Pk)
MemMultOverflowStep ==
    \E dst \in Free(SubSeq(OverflowVars, 1, 2), DOMAIN ov), a \in DOMAIN ct, b \in DOMAIN ct :
        LET r == MemMultOverflow(mem, ct[a], ct[b], KeyA)
        IN  /\ a # b
            /\ mem' = r.mem
            /\ ov' = ov @@ (dst :> r.lc)
            /\ built' = built @@ (dst :> How("MultOverflow", <<a, b>>, <<>>, 0))
            /\ expr' = expr @@ (dst :> DecryptOverflow(KeyA, OverflowValue(r.mem, r.lc)))
            /\ last' = dst
            /\ value' = <<>>
            /\ UNCHANGED ct
            /\ UNCHANGED <<call, ret, conc>>

\* labeling.SumOverflow(params, c1, c2)
MemSumOverflowStep ==
    \E dst \in Free(SubSeq(OverflowVars, 2, 2), DOMAIN ov), a \in DOMAIN ov, b \in DOMAIN ct :
        LET r == MemSumOverflow(mem, ov[a], ct[b])
        IN  /\ mem' = r.mem
            /\ ov' = ov @@ (dst :> r.lc)
            /\ built' = built @@ (dst :> How("SumOverflow", <<a, b>>, <<>>, 0))
            /\ expr' = expr @@ (dst :> DecryptOverflow(KeyA, OverflowValue(r.mem, r.lc)))
            /\ last' = dst
            /\ value' = <<>>
            /\ UNCHANGED ct
            /\ UNCHANGED <<call, ret, conc>>

\* labeling.SumOverflowCiphertext(params, ca, cb)
MemSumOverflowCiphertextStep ==
    \E dst \in Free(SubSeq(OverflowVars, 3, 3), DOMAIN ov),
       a \in DOMAIN ov \ {"ov1"}, b \in DOMAIN ov \cap {"ov1"} :
        LET r == MemSumOverflowCiphertext(mem, ov[a], ov[b])
        IN  /\ mem' = r.mem
            /\ ov' = ov @@ (dst :> r.lc)
            /\ built' = built @@ (dst :> How("SumOverflowCiphertext", <<a, b>>, <<>>, 0))
            /\ expr' = expr @@ (dst :> DecryptOverflow(KeyA, OverflowValue(r.mem, r.lc)))
            /\ last' = dst
            /\ value' = <<>>
            /\ UNCHANGED ct
            /\ UNCHANGED <<call, ret, conc>>

\* labeling.DecryptOverflow(params, Sk, c), of any labeled ciphertext held,
\* once after an operation
MemDecryptOverflowStep ==
    \E x \in DOMAIN ov :
        /\ value = <<>>
        /\ value' = (x :> DecryptOverflow(KeyA, OverflowValue(mem, ov[x])))
        /\ UNCHANGED <<ct, ov, built, expr, last, mem, call, ret, conc>>

NextMem ==
    \/ MemEncryptStep
    \/ MemDecryptStep
    \/ MemSumStep
    \/ MemMultStep
    \/ MemMultOverflowStep
    \/ MemSumOverflowStep
    \/ MemSumOverflowCiphertextStep
    \/ MemDecryptOverflowStep

SpecMem == Init /\ [][NextMem]_vars

\* ------------------------------------------------------------------------
\* Calls of the library, one at a time
\* ------------------------------------------------------------------------

\* params, err := labeling.NewParametersFromLiteral(logN, LogQ, LogP, PlaintextModulus)
NewParametersFromLiteralStep ==
    \E logN \in LogNs, LogQ \in LogQs, LogP \in LogPs, t \in PlaintextModuli :
        /\ call' = [op |-> "NewParametersFromLiteral",
                    logN |-> logN, LogQ |-> LogQ, LogP |-> LogP, PlaintextModulus |-> t]
        /\ ret' = NewParametersFromLiteral(logN, LogQ, LogP, t)
        /\ UNCHANGED <<ct, ov, built, expr, last, value, mem, conc>>

NextParams == NewParametersFromLiteralStep

SpecParams == Init /\ [][NextParams]_vars

\* labeledciphertext, err := labeling.Encrypt(params, Pk, value)
EncryptCallStep ==
    \E v \in Vectors, masks \in Samples, fail \in 0..3 :
        /\ call' = [op |-> "Encrypt", value |-> v, masks |-> masks, fail |-> fail]
        /\ ret' = EncryptCall(KeyA, v, masks, fail)
        /\ UNCHANGED <<ct, ov, built, expr, last, value, mem, conc>>

\* ctSum, err := labeling.Sum(params.Parameters, lc1, lc2)
SumCallStep ==
    \E lc1 \in Operands, lc2 \in Operands, fail \in 0..1 :
        /\ call' = [op |-> "Sum", lc1 |-> lc1, lc2 |-> lc2, fail |-> fail]
        /\ ret' = SumCall(lc1, lc2, fail)
        /\ UNCHANGED <<ct, ov, built, expr, last, value, mem, conc>>

\* ctMult, err := labeling.Mult(params, lc1, lc2, Pk, evk)
MultCallStep ==
    \E lc1 \in Operands, lc2 \in Operands, randomVector \in Samples, fail \in 0..9 :
        /\ call' = [op |-> "Mult", lc1 |-> lc1, lc2 |-> lc2,
                    randomVector |-> randomVector, fail |-> fail]
        /\ ret' = MultCall(lc1, lc2, KeyA, randomVector, fail)
        /\ UNCHANGED <<ct, ov, built, expr, last, value, mem, conc>>

NextCalls ==
    \/ EncryptCallStep
    \/ SumCallStep
    \/ MultCallStep

SpecCalls == Init /\ [][NextCalls]_vars

\* the variables the concurrent invocations leave alone
sequential == <<ct, ov, built, expr, last, value, mem, call, ret>>

Running(q) == proc[q].pc \notin {"idle", "done"}

\* history: the invocation has taken a step while another one was under way
Overlapped(p) == proc[p].overlap \/ \E q \in Procs \ {p} : Running(q)

\* the masks of the operands invocation p is given; no other is given them
InputMasks(p) == [i \in Slots |-> (p + i) % SqrtModulus]

\* go labeling.Mult(params, lc1, lc2, Pk, evk) on operands of its own
StartMult(p) ==
    \E v1 \in Values, v2 \in Values :
        /\ proc[p].pc = "idle"
        /\ proc' = [proc EXCEPT ![p] =
                        [Idle EXCEPT !.pc = "NewPRNG", !.op = "Mult",
                                     !.lc1 = Encrypt(KeyA, v1, InputMasks(p)),
                                     !.lc2 = Encrypt(KeyA, v2, InputMasks(p)),
                                     !.overlap = Overlapped(p)]]
        /\ UNCHANGED <<pool, sequential>>

\* go labeling.Encrypt(params, Pk, value) on a vector of its own
StartEncrypt(p) ==
    \E v \in Values :
        /\ proc[p].pc = "idle"
        /\ proc' = [proc EXCEPT ![p] =
                        [Idle EXCEPT !.pc = "NewPRNG", !.op = "Encrypt", !.value = v,
                                     !.overlap = Overlapped(p)]]
        /\ UNCHANGED <<pool, sequential>>

\* prng, err := sampling.NewPRNG()
NewPRNG(p) ==
    \E seed \in Seeds :
        /\ proc[p].pc = "NewPRNG"
        /\ pool' = [pool EXCEPT !.prng[PRNGOf(p)] = seed]
        /\ proc' = [proc EXCEPT ![p].pc = "RandUniform", ![p].seed = seed,
                                ![p].overlap = Overlapped(p)]
        /\ UNCHANGED sequential

\* one iteration of the sampling loop: ring.RandUniform(prng, ...)
RandUniformStep(p) ==
    LET read == PRNGRead(pool.prng[PRNGOf(p)])
        drawn == Append(proc[p].randomVector, read.out)
    IN  /\ proc[p].pc = "RandUniform"
        /\ pool' = [pool EXCEPT !.prng[PRNGOf(p)] = read.state]
        /\ proc' = [proc EXCEPT ![p].randomVector = drawn,
                                ![p].pc = IF Len(drawn) < MaxSlots THEN "RandUniform"
                                          ELSE IF proc[p].op = "Mult" THEN "evaluate"
                                          ELSE "EncryptNew",
                                ![p].k = IF proc[p].op = "Mult" THEN 1 ELSE 0,
                                ![p].overlap = Overlapped(p)]
        /\ UNCHANGED sequential

\* an evaluator instruction computes into the buffer of the evaluator
Evaluate(p) ==
    /\ proc[p].pc = "evaluate"
    /\ pool' = [pool EXCEPT !.buffer[EvaluatorOf(p)] = Instr(proc[p].k, proc[p])]
    /\ proc' = [proc EXCEPT ![p].pc = "store", ![p].overlap = Overlapped(p)]
    /\ UNCHANGED sequential

\* and copies the buffer into its output operand; after the last instruction
\* Mult returns labeledciphertextProduct
Store(p) ==
    LET l == proc[p]
        out == pool.buffer[EvaluatorOf(p)]
        acc == IF l.k \in IntoTmp THEN l.acc ELSE out
    IN  /\ l.pc = "store"
        /\ proc' = [proc EXCEPT
               ![p].acc = acc,
               ![p].tmp = IF l.k \in IntoTmp THEN out ELSE l.tmp,
               ![p].k = l.k + 1,
               ![p].pc = IF l.k = LastInstr THEN "done"
                         ELSE IF l.k = LastInstr - 1 THEN "EncryptNew"
                         ELSE "evaluate",
               ![p].result = IF l.k = LastInstr
                             THEN [elementsA |-> [i \in 1..Len(l.lc1.elementsA) |->
                                                     MultLabel(l.lc1.elementsA[i],
                                                               l.lc2.elementsA[i],
                                                               l.randomVector[i])],
                                   elementB  |-> << << acc >> >>]
                             ELSE l.result,
               ![p].overlap = Overlapped(p)]
        /\ UNCHANGED <<pool, sequential>>

\* rlwe.NewEncryptor(params, key).EncryptNew(...) of the drawn vector: in
\* Encrypt the beta of the result, in Mult the last summand
EncryptNew(p) ==
    LET l == proc[p]
    IN  /\ l.pc = "EncryptNew"
        /\ proc' = [proc EXCEPT
               ![p].tmp = BGVEncrypt(KeyA, l.randomVector),
               ![p].pc = IF l.op = "Mult" THEN "evaluate" ELSE "done",
               ![p].result = IF l.op = "Mult" THEN l.result
                             ELSE [elementsA |-> [i \in Slots |->
                                                     EncryptLabel(l.value[i], l.randomVector[i])],
                                   elementB  |-> << << BGVEncrypt(KeyA, l.randomVector) >> >>],
               ![p].overlap = Overlapped(p)]
        /\ UNCHANGED <<pool, sequential>>

NextConc ==
    \E p \in Procs :
        \/ StartMult(p)
        \/ StartEncrypt(p)
        \/ NewPRNG(p)
        \/ RandUniformStep(p)
        \/ Evaluate(p)
        \/ Store(p)
        \/ EncryptNew(p)

SpecConc == Init /\ [][NextConc]_vars

\* ------------------------------------------------------------------------
\* The operations that take and return the clear shape
\* ------------------------------------------------------------------------

NextClear ==
    \/ EncryptStep
    \/ SumStep
    \/ MultStep
    \/ RotateColumnsStep
    \/ ApplyEvaluationKeyStep

SpecClear == Init /\ [][NextClear]_vars

\* ------------------------------------------------------------------------
\* Calls of the operations that need a key of the evaluation key set
\* ------------------------------------------------------------------------

\* labeling.Mult(params, lc1, lc2, Pk, evk)
MultWithKeysStep ==
    \E lc1 \in FreshOperands, lc2 \in FreshOperands, randomVector \in Samples, evk \in KeySets :
        /\ call' = [op |-> "Mult", lc1 |-> lc1, lc2 |-> lc2,
                    randomVector |-> randomVector, evk |-> evk,
                    missing |-> ~evk.rlk]
        /\ ret' = MultWithKeys(lc1, lc2, KeyA, randomVector, evk)
        /\ UNCHANGED <<ct, ov, built, expr, last, value, mem, conc>>

\* labeling.RotateColumns(params, lc, k, evk)
RotateColumnsWithKeysStep ==
    \E lc \in FreshOperands, k \in Steps, evk \in KeySets :
        /\ call' = [op |-> "RotateColumns", lc1 |-> lc, k |-> k, evk |-> evk,
                    missing |-> k \notin evk.galois]
        /\ ret' = RotateColumnsWithKeys(lc, k, evk)
        /\ UNCHANGED <<ct, ov, built, expr, last, value, mem, conc>>

\* labeling.RotateColumnsOverflow(params, labeling.MultOverflow(...), k, evk)
RotateColumnsOverflowWithKeysStep ==
    \E lc1 \in FreshOperands, lc2 \in FreshOperands, k \in Steps, evk \in KeySets :
        /\ call' = [op |-> "RotateColumnsOverflow", lc1 |-> lc1, lc2 |-> lc2,
                    k |-> k, evk |-> evk, missing |-> k \notin evk.galois]
        /\ ret' = RotateColumnsOverflowWithKeys(MultOverflow(lc1, lc2, KeyA), k, evk)
        /\ UNCHANGED <<ct, ov, built, expr, last, value, mem, conc>>

NextEvk ==
    \/ MultWithKeysStep
    \/ RotateColumnsWithKeysStep
    \/ RotateColumnsOverflowWithKeysStep

SpecEvk == Init /\ [][NextEvk]_vars

\* ------------------------------------------------------------------------
\* The label arithmetic on its own: each expression applied to every label
\* of Z_t and every mask the sampler returns
\* ------------------------------------------------------------------------

\* diff := (value[i] - mask + t) % t
EncryptLabelStep ==
    \E v \in 0..(PlaintextModulus - 1), mask \in RandUniform(SqrtModulus, SamplingMask) :
        /\ call' = [op |-> "EncryptLabel", v |-> v, mask |-> mask]
        /\ ret' = [err |-> "nil", word |-> EncryptLabel(v, mask)]
        /\ UNCHANGED <<ct, ov, built, expr, last, value, mem, conc>>

\* product := (a1*a2 - r + t) % t
MultLabelStep ==
    \E a1 \in 0..(PlaintextModulus - 1), a2 \in 0..(PlaintextModulus - 1),
       r \in RandUniform(SqrtModulus, SamplingMask) :
        /\ call' = [op |-> "MultLabel", a1 |-> a1, a2 |-> a2, r |-> r]
        /\ ret' = [err |-> "nil", word |-> MultLabel(a1, a2, r)]
        /\ UNCHANGED <<ct, ov, built, expr, last, value, mem, conc>>

\* productVector[i] = (a1 * a2) % t
ProductLabelStep ==
    \E a1 \in 0..(PlaintextModulus - 1), a2 \in 0..(PlaintextModulus - 1) :
        /\ call' = [op |-> "ProductLabel", a1 |-> a1, a2 |-> a2]
        /\ ret' = [err |-> "nil", word |-> ProductLabel(a1, a2)]
        /\ UNCHANGED <<ct, ov, built, expr, last, value, mem, conc>>

NextLabel ==
    \/ EncryptLabelStep
    \/ MultLabelStep
    \/ ProductLabelStep

SpecLabel == Init /\ [][NextLabel]_vars

\* ------------------------------------------------------------------------
\* The operations that return the encrypted shape, over fresh operands
\* ------------------------------------------------------------------------

NextOverflow ==
    \/ EncryptStep
    \/ MultOverflowStep
    \/ SumOverflowStep
    \/ SumOverflowCiphertextStep

SpecOverflow == Init /\ [][NextOverflow]_vars

\* ------------------------------------------------------------------------
\* Properties
\* ------------------------------------------------------------------------

\* the vector a clear-shape variable stands for, read with the secret key
Plain(x) == Decrypt(KeyA, ct[x])

\* the vector an encrypted-shape variable stands for, read with the secret key
PlainOverflow(x) == DecryptOverflow(KeyA, ov[x])

\* the slot vector of a BGV ciphertext under the secret key
Dec(c) == BGVDecrypt(KeyA, c)

\* residue of an integer in Z_t
ModT(x) == x % PlaintextModulus

\* C1: a variable assigned by Encrypt(pk, v) decrypts under sk to v in every
\* slot, whichever values the sampler returned for the masks.
C1_RoundTrip ==
    \A x \in DOMAIN value \cap DOMAIN ct :
        built[x].op = "Encrypt" => \A i \in Slots : value[x][i] = ModT(expr[x][i])

\* C1 happens: a fresh ciphertext was decrypted, and in one of its slots the
\* mask exceeded the value, so that the label was computed through a wrap
C1_Witness ==
    \E x \in DOMAIN value \cap DOMAIN ct :
        /\ built[x].op = "Encrypt"
        /\ \E i \in Slots : expr[x][i] < built[x].rnd[i]
        /\ \E i \in Slots : expr[x][i] > built[x].rnd[i]

\* C2: the variable just assigned Mult(C1, C2) decrypts to the slot-wise product of what
\* C1 and C2 decrypt to, for every r the sampler returned; its label is
\* (a1*a2 - r) mod t and its beta decrypts to b1*b2 + a1*b2 + a2*b1 + r mod t.
C2_MultHomomorphism ==
    \A x \in {last} \cap DOMAIN ct :
        built[x].op = "Mult" =>
            LET c1 == ct[built[x].args[1]]
                c2 == ct[built[x].args[2]]
                r  == built[x].rnd
                b1 == Dec(c1.elementB[1][1])
                b2 == Dec(c2.elementB[1][1])
            IN  /\ \A i \in Slots :
                       ct[x].elementsA[i] = ModT(c1.elementsA[i] * c2.elementsA[i] - r[i])
                /\ \A i \in Slots :
                       Dec(ct[x].elementB[1][1])[i] =
                           ModT(b1[i] * b2[i] + c1.elementsA[i] * b2[i]
                                + c2.elementsA[i] * b1[i] + r[i])
                /\ x \in DOMAIN value =>
                       \A i \in Slots :
                           value[x][i] = ModT(Plain(built[x].args[1])[i]
                                              * Plain(built[x].args[2])[i])

\* C2 happens: the product of two different ciphertexts was decrypted, and in
\* one slot the product of the labels was below r
C2_Witness ==
    \E x \in DOMAIN value \cap DOMAIN ct :
        /\ built[x].op = "Mult"
        /\ built[x].args[1] # built[x].args[2]
        /\ \E i \in Slots :
               ct[built[x].args[1]].elementsA[i] * ct[built[x].args[2]].elementsA[i]
                   < built[x].rnd[i]
        /\ \E i \in Slots : value[x][i] > 1

\* C3: the variable just assigned Sum(C1, C2) decrypts to the slot-wise sum mod t of what
\* C1 and C2 decrypt to; its label is (A1[i] + A2[i]) mod t and its beta is
\* the BGV sum of the two betas.
C3_SumHomomorphism ==
    \A x \in {last} \cap DOMAIN ct :
        built[x].op = "Sum" =>
            LET c1 == ct[built[x].args[1]]
                c2 == ct[built[x].args[2]]
            IN  /\ \A i \in Slots :
                       ct[x].elementsA[i] = ModT(c1.elementsA[i] + c2.elementsA[i])
                /\ ct[x].elementB = << << BGVAdd(c1.elementB[1][1], c2.elementB[1][1]) >> >>
                /\ x \in DOMAIN value =>
                       \A i \in Slots :
                           value[x][i] = ModT(Plain(built[x].args[1])[i]
                                              + Plain(built[x].args[2])[i])

\* C3 happens: the sum of two different ciphertexts was decrypted, and in one
\* slot the sum of the labels reached t
C3_Witness ==
    \E x \in DOMAIN value \cap DOMAIN ct :
        /\ built[x].op = "Sum"
        /\ built[x].args[1] # built[x].args[2]
        /\ \E i \in Slots :
               ct[built[x].args[1]].elementsA[i] + ct[built[x].args[2]].elementsA[i]
                   >= PlaintextModulus

\* C4: the variable just assigned MultOverflow(C1, C2) decrypts under DecryptOverflow to
\* the slot-wise product of what C1 and C2 decrypt to: its alpha decrypts to
\* a1*a2 + a1*b2 + a2*b1, and Dec(alpha) + Dec(beta1)*Dec(beta2) is m1*m2.
C4_MultOverflow ==
    \A x \in {last} \cap DOMAIN ov :
        built[x].op = "MultOverflow" =>
            LET c1 == ct[built[x].args[1]]
                c2 == ct[built[x].args[2]]
                b1 == Dec(c1.elementB[1][1])
                b2 == Dec(c2.elementB[1][1])
                m1 == Plain(built[x].args[1])
                m2 == Plain(built[x].args[2])
                alpha == Dec(ov[x].elementsA)
            IN  /\ \A i \in Slots :
                       alpha[i] = ModT(c1.elementsA[i] * c2.elementsA[i]
                                       + c1.elementsA[i] * b2[i] + c2.elementsA[i] * b1[i])
                /\ \A i \in Slots :
                       ModT(alpha[i] + Dec(ov[x].elementB[1][1])[i] * Dec(ov[x].elementB[1][2])[i])
                           = ModT(m1[i] * m2[i])
                /\ x \in DOMAIN value =>
                       \A i \in Slots : value[x][i] = ModT(m1[i] * m2[i])

\* C4 happens: the overflow product of two different ciphertexts, one of them
\* itself a product, was decrypted to a vector with a slot above 1
C4_Witness ==
    \E x \in DOMAIN value \cap DOMAIN ov :
        /\ built[x].op = "MultOverflow"
        /\ built[x].args[1] # built[x].args[2]
        /\ built[built[x].args[2]].op = "Mult"
        /\ \E i \in Slots : value[x][i] > 1

\* the two-half rotation of a vector by k: slot i (counted from 0) takes the
\* slot (i+k) mod h of its own half, h being half the slot count
RotateVector(v, k) ==
    [i \in Slots |->
        LET j == i - 1
            h == MaxSlots \div 2
        IN  IF j < h THEN v[((j + k) % h) + 1]
            ELSE v[h + ((j - h + k) % h) + 1]]

\* product, in Z_t, of what the first j factors of a term decrypt to
RECURSIVE TermProduct(_, _)
TermProduct(term, j) ==
    IF j = 0 THEN [i \in Slots |-> 1]
    ELSE VecMul(TermProduct(term, j - 1), Dec(term[j]))

\* sum, in Z_t, of the products of the first n terms of a bundle
RECURSIVE BundleSum(_, _)
BundleSum(bundle, n) ==
    IF n = 0 THEN [i \in Slots |-> 0]
    ELSE VecAdd(BundleSum(bundle, n - 1), TermProduct(bundle[n], Len(bundle[n])))

\* C5: with C1 = Encrypt(v1) and C2 = Encrypt(v2), the variable assigned
\* SumOverflow(MultOverflow(C1, Mult(C1, C2)), C1) decrypts under
\* DecryptOverflow to ((v1*v2)*v1 + v1) mod t in every slot.
C5_MixedDepthChain ==
    \A x \in DOMAIN value \cap DOMAIN ov :
        (/\ built[x].op = "SumOverflow"
         /\ built[built[x].args[1]].op = "MultOverflow"
         /\ built[built[built[x].args[1]].args[2]].op = "Mult"
         /\ built[built[x].args[2]].op = "Encrypt"
         /\ built[built[x].args[1]].args[1] = built[x].args[2]
         /\ built[built[built[x].args[1]].args[2]].args[1] = built[x].args[2]
         /\ built[built[built[built[x].args[1]].args[2]].args[2]].op = "Encrypt")
        => LET v1 == expr[built[x].args[2]]
               v2 == expr[built[built[built[x].args[1]].args[2]].args[2]]
           IN  \A i \in Slots : value[x][i] = ModT((v1[i] * v2[i]) * v1[i] + v1[i])

\* C5 happens: the chain was built from two different fresh ciphertexts and
\* decrypted
C5_Witness ==
    \E x \in DOMAIN value \cap DOMAIN ov :
        /\ built[x].op = "SumOverflow"
        /\ built[x].args = <<"ov1", "ct1">>
        /\ built["ov1"].op = "MultOverflow"
        /\ built["ov1"].args = <<"ct1", "ct3">>
        /\ built["ct3"].op = "Mult"
        /\ built["ct3"].args = <<"ct1", "ct2">>
        /\ built["ct2"].op = "Encrypt"
        /\ expr["ct1"] # expr["ct2"]
        /\ \E i \in Slots : value[x][i] > 1

\* C6: the variable just assigned SumOverflowCiphertext(Ca, Cb) has label alpha_a + alpha_b
\* and bundle Ba ++ Bb, terms of Ba first and none merged or dropped, and
\* decrypts to the slot-wise sum mod t of what Ca and Cb decrypt to; for two
\* MultOverflow results the bundle has 2 terms.
C6_BundleConcatenation ==
    \A x \in {last} \cap DOMAIN ov :
        built[x].op = "SumOverflowCiphertext" =>
            LET ca == ov[built[x].args[1]]
                cb == ov[built[x].args[2]]
            IN  /\ Dec(ov[x].elementsA) = VecAdd(Dec(ca.elementsA), Dec(cb.elementsA))
                /\ Len(ov[x].elementB) = Len(ca.elementB) + Len(cb.elementB)
                /\ \A j \in 1..Len(ca.elementB) : ov[x].elementB[j] = ca.elementB[j]
                /\ \A j \in 1..Len(cb.elementB) :
                       ov[x].elementB[Len(ca.elementB) + j] = cb.elementB[j]
                /\ (built[built[x].args[1]].op = "MultOverflow"
                    /\ built[built[x].args[2]].op = "MultOverflow")
                       => Len(ov[x].elementB) = 2
                /\ x \in DOMAIN value =>
                       \A i \in Slots :
                           value[x][i] = ModT(PlainOverflow(built[x].args[1])[i]
                                              + PlainOverflow(built[x].args[2])[i])

\* C6 happens: two MultOverflow results of different operands, hence with
\* different bundles, were summed and the sum decrypted
C6_Witness ==
    \E x \in DOMAIN value \cap DOMAIN ov :
        /\ built[x].op = "SumOverflowCiphertext"
        /\ built[built[x].args[1]].op = "MultOverflow"
        /\ built[built[x].args[2]].op = "MultOverflow"
        /\ ov[x].elementB[1] # ov[x].elementB[2]
        /\ \E i \in Slots : value[x][i] > 1

\* C7: the variable just assigned SumOverflow(C1, C2), C1 encrypted-shape and C2
\* clear-shape, has a label that decrypts to Dec(alpha1) + a2, the bundle
\* B1 ++ [[beta2]], one term longer than B1, and decrypts under
\* DecryptOverflow to (m1 + m2) mod t in every slot.
C7_MixedSum ==
    \A x \in {last} \cap DOMAIN ov :
        built[x].op = "SumOverflow" =>
            LET c1 == ov[built[x].args[1]]
                c2 == ct[built[x].args[2]]
            IN  /\ \A i \in Slots :
                       Dec(ov[x].elementsA)[i] = ModT(Dec(c1.elementsA)[i] + c2.elementsA[i])
                /\ ov[x].elementB = c1.elementB \o << << c2.elementB[1][1] >> >>
                /\ Len(ov[x].elementB) = Len(c1.elementB) + 1
                /\ x \in DOMAIN value =>
                       \A i \in Slots :
                           value[x][i] = ModT(PlainOverflow(built[x].args[1])[i]
                                              + Plain(built[x].args[2])[i])

\* C7 happens: a clear-shape ciphertext with a label that is not all zero and
\* all one was added to an overflow product and the sum decrypted
C7_Witness ==
    \E x \in DOMAIN value \cap DOMAIN ov :
        /\ built[x].op = "SumOverflow"
        /\ \E i \in Slots : ct[built[x].args[2]].elementsA[i] > 1
        /\ \E i \in Slots : Dec(ov[built[x].args[1]].elementsA)[i] > 1
        /\ Len(ov[x].elementB) = 2

\* C8: every labeled ciphertext a driver holds, however it was composed from
\* Encrypt, Sum, Mult, MultOverflow, SumOverflow and SumOverflowCiphertext,
\* satisfies A + Dec(beta) = m (clear shape) or
\* Dec(alpha) + sum over terms of the product of Dec(beta) = m (encrypted
\* shape), slot-wise mod t, m being the value of its expression.
C8_SemanticInvariant ==
    /\ \A x \in DOMAIN ct :
           VecAdd(ct[x].elementsA, Dec(ct[x].elementB[1][1])) = expr[x]
    /\ \A x \in DOMAIN ov :
           VecAdd(Dec(ov[x].elementsA), BundleSum(ov[x].elementB, Len(ov[x].elementB))) = expr[x]

\* C8 happens: a sum of two overflow ciphertexts, built over a clear product,
\* is held
C8_Witness ==
    /\ "ov3" \in DOMAIN ov
    /\ "ct3" \in DOMAIN ct
    /\ built["ct3"].op = "Mult"
    /\ built["ov1"].args[2] = "ct3"
    /\ built["ov2"].op = "SumOverflow"
    /\ \E i \in Slots : expr["ov3"][i] > 1

\* C9: a variable assigned RotateColumns(Encrypt(v), k) decrypts in slot i to
\* v[(i+k) mod h] when i < h and to v[h + ((i-h+k) mod h)] otherwise, h being
\* half the slot count: the halves rotate on their own.
C9_RotationLaw ==
    \A x \in DOMAIN value \cap DOMAIN ct :
        (built[x].op = "RotateColumns" /\ built[built[x].args[1]].op = "Encrypt")
            => value[x] = RotateVector(expr[built[x].args[1]], built[x].k)

\* C9 happens: a fresh ciphertext was rotated and decrypted, and the rotation
\* moved a value
C9_Witness ==
    \E x \in DOMAIN value \cap DOMAIN ct :
        /\ built[x].op = "RotateColumns"
        /\ built[built[x].args[1]].op = "Encrypt"
        /\ value[x] # expr[built[x].args[1]]
        /\ built[x].k < 0

\* C10: a variable assigned RotateColumnsOverflow(MultOverflow(C(v1), C(v2)), k)
\* decrypts under DecryptOverflow to the two-half rotation by k of the
\* slot-wise product (v1*v2) mod t.
C10_RotationOverflow ==
    \A x \in DOMAIN value \cap DOMAIN ov :
        (/\ built[x].op = "RotateColumnsOverflow"
         /\ built[built[x].args[1]].op = "MultOverflow"
         /\ built[built[built[x].args[1]].args[1]].op = "Encrypt"
         /\ built[built[built[x].args[1]].args[2]].op = "Encrypt")
        => LET v1 == expr[built[built[x].args[1]].args[1]]
               v2 == expr[built[built[x].args[1]].args[2]]
           IN  value[x] = RotateVector([i \in Slots |-> ModT(v1[i] * v2[i])], built[x].k)

\* C10 happens: the overflow product of two different fresh ciphertexts was
\* rotated and decrypted, and the rotation moved a value
C10_Witness ==
    \E x \in DOMAIN value \cap DOMAIN ov :
        /\ built[x].op = "RotateColumnsOverflow"
        /\ built[built[x].args[1]].op = "MultOverflow"
        /\ built[built[built[x].args[1]].args[1]].op = "Encrypt"
        /\ built[built[built[x].args[1]].args[2]].op = "Encrypt"
        /\ built[built[x].args[1]].args[1] # built[built[x].args[1]].args[2]
        /\ value[x] # PlainOverflow(built[x].args[1])

\* C11: with an evaluation key from the key pair a fresh ciphertext of v was
\* encrypted under to a second, independent pair, the variable assigned
\* ApplyEvaluationKey(ek, Encrypt(pk_A, v)) decrypts under the second secret
\* key to v in every slot.
C11_KeySwitching ==
    \A x \in DOMAIN value \cap DOMAIN ct :
        (/\ built[x].op = "ApplyEvaluationKey"
         /\ built[built[x].args[1]].op = "Encrypt"
         /\ built[x].k.src = KeyA
         /\ built[x].k.dst # KeyA)
        => value[x] = expr[built[x].args[1]]

\* C11 happens: a fresh ciphertext was switched from the pair A to the pair B
\* and decrypted under B to a vector with a slot above 1
C11_Witness ==
    \E x \in DOMAIN value \cap DOMAIN ct :
        /\ built[x].op = "ApplyEvaluationKey"
        /\ built[built[x].args[1]].op = "Encrypt"
        /\ built[x].k = GenerateEvaluationKey(KeyA, KeyB)
        /\ \E i \in Slots : value[x][i] > 1

\* C12: with an evaluation key from the pair A to a pair C, the variable
\* assigned ApplyEvaluationKeyOverflow(ek, MultOverflow(C(v1), C(v2))), v1
\* and v2 encrypted under pk_A, decrypts under sk_C through DecryptOverflow
\* to (v1*v2) mod t in every slot; its alpha and every beta of every term
\* are bound to the destination key, and the bundle has the terms and factors
\* it had.
C12_KeySwitchingOverflow ==
    \A x \in DOMAIN ov :
        (/\ built[x].op = "ApplyEvaluationKeyOverflow"
         /\ built[built[x].args[1]].op = "MultOverflow"
         /\ built[built[built[x].args[1]].args[1]].op = "Encrypt"
         /\ built[built[built[x].args[1]].args[2]].op = "Encrypt"
         /\ built[x].k.src = KeyA
         /\ built[x].k.dst # KeyA)
        => LET src == ov[built[x].args[1]]
               v1 == expr[built[built[x].args[1]].args[1]]
               v2 == expr[built[built[x].args[1]].args[2]]
           IN  /\ ov[x].elementsA.key = built[x].k.dst
               /\ Len(ov[x].elementB) = Len(src.elementB)
               /\ \A i \in 1..Len(src.elementB) :
                      /\ Len(ov[x].elementB[i]) = Len(src.elementB[i])
                      /\ \A j \in 1..Len(src.elementB[i]) :
                             /\ ov[x].elementB[i][j].key = built[x].k.dst
                             /\ ov[x].elementB[i][j].slots = src.elementB[i][j].slots
               /\ x \in DOMAIN value =>
                      \A i \in Slots : value[x][i] = ModT(v1[i] * v2[i])

\* C12 happens: the overflow product of two different fresh ciphertexts was
\* switched from the pair A to the pair C and decrypted under C to a vector
\* with a slot above 1
C12_Witness ==
    \E x \in DOMAIN value \cap DOMAIN ov :
        /\ built[x].op = "ApplyEvaluationKeyOverflow"
        /\ built[built[x].args[1]].op = "MultOverflow"
        /\ built[built[built[x].args[1]].args[1]].op = "Encrypt"
        /\ built[built[built[x].args[1]].args[2]].op = "Encrypt"
        /\ built[x].k = GenerateEvaluationKey(KeyA, KeyC)
        /\ \E i \in Slots : value[x][i] > 1

\* C13: every label stored by Encrypt and by Mult lies in [0, t), and every
\* mask drawn inside them (b_i in Encrypt, r_i in Mult) lies in
\* [0, floor(sqrt(t))), whatever words the input vector holds and whatever
\* labels the operands have.
C13_LabelBound ==
    \A x \in DOMAIN ct :
        built[x].op \in {"Encrypt", "Mult"} =>
            \A i \in Slots :
                /\ ct[x].elementsA[i] \in 0..(PlaintextModulus - 1)
                /\ built[x].rnd[i] \in 0..(SqrtModulus - 1)

\* C13 happens: a product was built with the largest mask the sampler
\* returns, over an operand that encrypts words at and above t
C13_Witness ==
    /\ "ct3" \in DOMAIN ct
    /\ built["ct3"].op = "Mult"
    /\ \E i \in Slots : built["ct3"].rnd[i] = SqrtModulus - 1
    /\ \E i \in Slots : built["ct1"].rnd[i] = SqrtModulus - 1
    /\ \E i \in Slots : ct["ct1"].elementsA[i] = PlaintextModulus - 1
    /\ "ct1" \in {built["ct3"].args[1], built["ct3"].args[2]}
    /\ \E i \in Slots : built["ct1"].args[i] >= PlaintextModulus

\* every labeled ciphertext held decrypts to what it decrypted to when it
\* was created
C14_Preserved ==
    /\ \A x \in DOMAIN ct : Decrypt(KeyA, ClearValue(mem, ct[x])) = expr[x]
    /\ \A x \in DOMAIN ov : DecryptOverflow(KeyA, OverflowValue(mem, ov[x])) = expr[x]

\* a step leaves every label, every BGV ciphertext and every labeled
\* ciphertext that exists before it as it was
C14_Frame ==
    /\ \A a \in 1..Len(mem.labels) : mem'.labels[a] = mem.labels[a]
    /\ \A a \in 1..Len(mem.ciphers) : mem'.ciphers[a] = mem.ciphers[a]
    /\ \A x \in DOMAIN ct : ct'[x] = ct[x]
    /\ \A x \in DOMAIN ov : ov'[x] = ov[x]

\* C14: no operation (Encrypt, Decrypt, DecryptOverflow, Sum, Mult,
\* MultOverflow, SumOverflow, SumOverflowCiphertext) changes the label, the
\* bundle or a beta of a labeled ciphertext that exists when it is called,
\* and after any sequence of operations every labeled ciphertext still
\* decrypts to the value it decrypted to when created.
C14_Immutability == []C14_Preserved /\ [][C14_Frame]_vars

\* C14 happens: the first fresh ciphertext was an operand of Mult, of
\* MultOverflow and of SumOverflow, its beta is a factor of a term of a sum
\* of two overflow ciphertexts, and it was decrypted after all of them
C14_Witness ==
    /\ "ov3" \in DOMAIN ov
    /\ "ct3" \in DOMAIN ct
    /\ "ct1" \in DOMAIN value
    /\ built["ct3"].op = "Mult"
    /\ built["ct3"].args[1] = "ct1"
    /\ built["ov1"].args = <<"ct1", "ct3">>
    /\ built["ov2"].op = "SumOverflow"
    /\ built["ov2"].args[2] = "ct1"
    /\ \E i \in 1..Len(ov["ov3"].elementB) :
           \E j \in 1..Len(ov["ov3"].elementB[i]) :
               ov["ov3"].elementB[i][j] = ct["ct1"].elementB[1][1]
    /\ \E i \in Slots : value["ct1"][i] > 1

\* C15: NewParametersFromLiteral(logN, LogQ, LogP, t) builds the parameters
\* from its arguments: for every valid argument tuple the result's
\* PlaintextModulus() is the t passed in, and its ring degree and modulus
\* chain are those of logN, LogQ and LogP.
C15_ParameterFacade ==
    call.op = "NewParametersFromLiteral" =>
        /\ ret.err = "nil"
        /\ ret.params.PlaintextModulus = call.PlaintextModulus
        /\ ret.params.LogN = call.logN
        /\ ret.params.LogQ = call.LogQ
        /\ ret.params.LogP = call.LogP

\* C16: an operation returns an error when a vector's length disagrees with
\* the slot count: Encrypt called with a value vector that is shorter or
\* longer than MaxSlots() returns an error, it neither aborts nor ignores
\* elements, and Sum and Mult called on labels of different lengths return
\* an error.
C16_LengthCheck ==
    /\ (call.op = "Encrypt" /\ Len(call.value) # MaxSlots) => ret.err = "error"
    /\ (call.op \in {"Sum", "Mult"} /\ Len(call.lc1.elementsA) # Len(call.lc2.elementsA))
           => ret.err = "error"

\* C17: a call that returns an error returns a labeled ciphertext with no
\* label filled in and no beta written, and performs no sub-operation after
\* the one that failed.
C17_NoPartialResults ==
    ret.err = "error" =>
        /\ ret.result = ZeroClear
        /\ Len(ret.trace) = call.fail

\* C18: however the steps of two invocations that work on operands of their
\* own and share only the keys are interleaved, each invocation returns what
\* it returns when it runs alone.
C18_Concurrency ==
    \A p \in Procs : proc[p].pc = "done" => proc[p].result = Alone(proc[p])

\* two products of different operands have both returned, each having taken
\* steps while the other was under way
C18_Witness ==
    /\ \A p \in Procs :
           proc[p].pc = "done" /\ proc[p].op = "Mult" /\ proc[p].overlap
    /\ proc[1].result # proc[2].result

\* C19: every clear-shape labeled ciphertext obtained by a sequence of
\* Encrypt, Sum, Mult, RotateColumns and ApplyEvaluationKey has a beta bundle
\* of exactly one term with exactly one factor, and a label of exactly
\* MaxSlots entries.
C19_ClearShape ==
    \A x \in DOMAIN ct :
        /\ Len(ct[x].elementB) = 1
        /\ Len(ct[x].elementB[1]) = 1
        /\ Len(ct[x].elementsA) = MaxSlots

\* three ciphertexts are held, the second a sum and the third obtained from
\* that sum by a product, a rotation or a key switch
C19_Witness ==
    /\ DOMAIN ct = {"ct1", "ct2", "ct3"}
    /\ built["ct2"].op = "Sum"
    /\ built["ct3"].op \in {"Mult", "RotateColumns", "ApplyEvaluationKey"}
    /\ built["ct3"].args[1] = "ct2"

\* C20: the result of MultOverflow on clear-shape operands with betas beta1
\* and beta2 has a bundle of exactly one term with exactly two factors, the
\* operands' own betas unchanged and in operand order, and its label is a
\* ciphertext.
C20_BundleStructure ==
    \A x \in DOMAIN ov :
        built[x].op = "MultOverflow" =>
            LET beta1 == ct[built[x].args[1]].elementB[1][1]
                beta2 == ct[built[x].args[2]].elementB[1][1]
            IN  /\ Len(ov[x].elementB) = 1
                /\ Len(ov[x].elementB[1]) = 2
                /\ ov[x].elementB[1][1] = beta1
                /\ ov[x].elementB[1][2] = beta2
                /\ DOMAIN ov[x].elementsA = {"key", "slots"}
                /\ ov[x].elementsA.key = KeyA

\* a MultOverflow result of two operands whose betas differ
C20_Witness ==
    \E x \in DOMAIN ov :
        /\ built[x].op = "MultOverflow"
        /\ ct[built[x].args[1]].elementB[1][1] # ct[built[x].args[2]].elementB[1][1]
        /\ ov[x].elementB[1][1] # ov[x].elementB[1][2]

\* C21: for every clear-shape C and every evaluation key ek, the label of
\* ApplyEvaluationKey(ek, C) equals the label of C entry by entry; the beta
\* is the key-switched beta of C, with the slots it had.
C21_LabelKept ==
    \A x \in DOMAIN ct :
        built[x].op = "ApplyEvaluationKey" =>
            LET C == ct[built[x].args[1]]
            IN  /\ Len(ct[x].elementsA) = Len(C.elementsA)
                /\ \A i \in 1..Len(C.elementsA) : ct[x].elementsA[i] = C.elementsA[i]
                /\ ct[x].elementB[1][1].slots = C.elementB[1][1].slots
                /\ C.elementB[1][1].key = built[x].k.src
                       => ct[x].elementB[1][1].key = built[x].k.dst

\* a ciphertext with a label that is not zero everywhere was key-switched to
\* another pair: its beta is bound to a key the operand's beta is not
C21_Witness ==
    \E x \in DOMAIN ct :
        /\ built[x].op = "ApplyEvaluationKey"
        /\ \E i \in Slots : ct[built[x].args[1]].elementsA[i] > 0
        /\ ct[x].elementB[1][1].key = built[x].k.dst
        /\ ct[x].elementB[1][1].key # ct[built[x].args[1]].elementB[1][1].key

\* C22: in one clear-label multiplication (Mult or MultOverflow) of two
\* clear-shape ciphertexts the product of their labels a1[i]*a2[i] is below
\* t in every slot.
C22_NoWrap ==
    \A x \in DOMAIN built :
        built[x].op \in {"Mult", "MultOverflow"} =>
            \A i \in Slots :
                ct[built[x].args[1]].elementsA[i] * ct[built[x].args[2]].elementsA[i]
                    < PlaintextModulus

\* C22 as amended: in one clear-label multiplication (Mult or MultOverflow)
\* both labels lie in [0, t) and their product a1[i]*a2[i], which may exceed
\* t, is below the word modulus in every slot, so that the machine product
\* is the mathematical one and its remainder mod t is the product in Z_t.
C22_ProductInWord ==
    \A x \in DOMAIN built :
        built[x].op \in {"Mult", "MultOverflow"} =>
            \A i \in Slots :
                LET a1 == ct[built[x].args[1]].elementsA[i]
                    a2 == ct[built[x].args[2]].elementsA[i]
                IN  /\ a1 < PlaintextModulus
                    /\ a2 < PlaintextModulus
                    /\ a1 * a2 < WordModulus
                    /\ Uint64(a1 * a2) % PlaintextModulus = ModT(a1 * a2)

\* a Mult and a MultOverflow have each multiplied two labels whose product
\* in some slot is t or more
C22_Witness ==
    /\ \E x \in DOMAIN ct :
           /\ built[x].op = "Mult"
           /\ \E i \in Slots :
                  ct[built[x].args[1]].elementsA[i] * ct[built[x].args[2]].elementsA[i]
                      >= PlaintextModulus
    /\ \E x \in DOMAIN ov :
           /\ built[x].op = "MultOverflow"
           /\ \E i \in Slots :
                  ct[built[x].args[1]].elementsA[i] * ct[built[x].args[2]].elementsA[i]
                      >= PlaintextModulus

\* C23: an operation that needs an evaluation key its key set lacks (Mult
\* without the relinearization key; RotateColumns or RotateColumnsOverflow
\* by k without the Galois key of k) returns an error and no result, for
\* any k.
C23_MissingKey ==
    (call.op \in {"Mult", "RotateColumns", "RotateColumnsOverflow"} /\ call.missing) =>
        /\ ret.err = "error"
        /\ ret.result = IF call.op = "RotateColumnsOverflow" THEN ZeroOverflow ELSE ZeroClear

\* C24: for every output of Encrypt(v), v a vector of Z_t, and every slot i,
\* (v[i] - a_i) mod t lies in [0, floor(sqrt(t))); hence two fresh
\* encryptions of messages whose values in a slot differ by at least
\* floor(sqrt(t)) modulo t, in either direction, have different labels in
\* that slot.
C24_LabelWindow ==
    /\ \A x \in DOMAIN ct :
           built[x].op = "Encrypt" =>
               \A i \in Slots : ModT(expr[x][i] - ct[x].elementsA[i]) \in 0..(SqrtModulus - 1)
    /\ \A x \in DOMAIN ct, y \in DOMAIN ct :
           (built[x].op = "Encrypt" /\ built[y].op = "Encrypt") =>
               \A i \in Slots :
                   (/\ ModT(expr[x][i] - expr[y][i]) >= SqrtModulus
                    /\ ModT(expr[y][i] - expr[x][i]) >= SqrtModulus)
                   => ct[x].elementsA[i] # ct[y].elementsA[i]

\* two fresh encryptions of messages that are far apart in some slot, one of
\* them with a label that wrapped below zero (message 0, mask 1)
C24_Witness ==
    /\ {"ct1", "ct2"} \subseteq DOMAIN ct
    /\ built["ct1"].op = "Encrypt"
    /\ built["ct2"].op = "Encrypt"
    /\ \E i \in Slots :
           /\ ModT(expr["ct1"][i] - expr["ct2"][i]) >= SqrtModulus
           /\ ModT(expr["ct2"][i] - expr["ct1"][i]) >= SqrtModulus
    /\ \E x \in {"ct1", "ct2"}, i \in Slots :
           /\ expr[x][i] = 0
           /\ ct[x].elementsA[i] = PlaintextModulus - 1

\* C25: for all a1, a2, v in [0, t) and mask, r in [0, floor(sqrt(t))), the
\* unsigned word expressions (v - mask + t) % t of Encrypt,
\* (a1*a2 - r + t) % t of Mult and (a1*a2) % t of MultOverflow equal
\* (v - mask) mod t, (a1*a2 - r) mod t and (a1*a2) mod t, also when the
\* subtraction goes below zero and wraps modulo the word size, and no
\* product reaches the word modulus.
C25_WordArithmetic ==
    /\ call.op = "EncryptLabel" => ret.word = ModT(call.v - call.mask)
    /\ call.op = "MultLabel" =>
           /\ ret.word = ModT(call.a1 * call.a2 - call.r)
           /\ call.a1 * call.a2 < WordModulus
    /\ call.op = "ProductLabel" =>
           /\ ret.word = ModT(call.a1 * call.a2)
           /\ call.a1 * call.a2 < WordModulus

\* the subtraction of Mult went below zero and wrapped: the product of the
\* labels is smaller than the mask and the label is t - 1
C25_Witness ==
    /\ call.op = "MultLabel"
    /\ call.a1 * call.a2 < call.r
    /\ Uint64(call.a1 * call.a2 - call.r) = WordModulus - 1
    /\ ret.word = PlaintextModulus - 1

\* C26: in every encrypted-shape ciphertext obtained by a sequence of
\* MultOverflow, SumOverflow and SumOverflowCiphertext every term of the
\* bundle has exactly 1 or 2 factors and the bundle is not empty, and no
\* operation returns a bundle with fewer terms than an encrypted-shape
\* operand it was given.
C26_BundleShape ==
    \A x \in DOMAIN ov :
        /\ Len(ov[x].elementB) >= 1
        /\ \A i \in 1..Len(ov[x].elementB) : Len(ov[x].elementB[i]) \in {1, 2}
        /\ built[x].op = "MultOverflow" =>
               \A i \in 1..Len(ov[x].elementB) : Len(ov[x].elementB[i]) = 2
        /\ built[x].op = "SumOverflow" =>
               Len(ov[x].elementB) >= Len(ov[built[x].args[1]].elementB)
        /\ built[x].op = "SumOverflowCiphertext" =>
               /\ Len(ov[x].elementB) >= Len(ov[built[x].args[1]].elementB)
               /\ Len(ov[x].elementB) >= Len(ov[built[x].args[2]].elementB)

\* a sum of two encrypted-shape ciphertexts holds three terms, of one and of
\* two factors, one of its operands being a SumOverflow result of two terms
C26_Witness ==
    \E x \in DOMAIN ov :
        /\ built[x].op = "SumOverflowCiphertext"
        /\ built[built[x].args[1]].op = "SumOverflow"
        /\ Len(ov[built[x].args[1]].elementB) = 2
        /\ Len(ov[x].elementB) = 3
        /\ \E i \in 1..3 : Len(ov[x].elementB[i]) = 1
        /\ \E i \in 1..3 : Len(ov[x].elementB[i]) = 2

====
